---- MODULE Spec2Model ----
(***************************************************************************)
(* A model of StorymapCreator_v1.py: the two-phase publish protocol        *)
(* (create_storymap, update_storymap_json and the functions they call)     *)
(* and the list engine (flatten_list_hierarchy).                           *)
(*                                                                         *)
(* Conventions.  A Python str is a sequence of tokens (<<"a">>, <<" ">>,   *)
(* <<"PLACEHOLDER_TEXT_", "0">>); opaque strings that the code only        *)
(* copies or tests for truth (captions, paths, style names) are TLA+       *)
(* strings, with None written "None".  A Python dict is a record or a      *)
(* function whose DOMAIN is the dict's key set, so `k in d` is             *)
(* k \in DOMAIN d.  An insertion-ordered dict that the code iterates       *)
(* (the document's nodes) is a pair [order, byId].                         *)
(***************************************************************************)
EXTENDS Integers, Sequences, FiniteSets, TLC

\* Bounds of the model.
MaxBlocks == 2
MaxResources == 2
MaxItems == 4
MaxLevel == 3
MaxParas == 3
MaxElements == 4

VARIABLES
    pc,               \* position of the run: which step of main comes next
    content_blocks,   \* the parsed blocks handed to create_storymap
    description,      \* storymap_description
    cover_image,      \* storymap_cover_image
    i,                \* loop index of create_storymap's enumerate(content_blocks)
    story,            \* the StoryMap object's JSON while Phase 1 builds it
    placeholder_ids,  \* placeholder key -> node_id
    parsed_blocks,    \* the Placeholder Map: node_id -> block
    image_dimensions, \* path -> (width, height)
    remote_listing,   \* storymap_item.resources.list()
    remote_files,     \* resource name -> what resources.get(name) returns
    remote_canonical, \* storymap_item.get_data()
    remote_log,       \* the calls issued to the platform, in order
    main_data,        \* the document JSON Phase 2 works on
    main_source,      \* where main_data was fetched from
    replacements,     \* update_storymap_content's return value
    result,           \* update_storymap_json's return value
    response,         \* the answer to the last draft upload
    grouped_lists,    \* input of flatten_list_hierarchy
    flattened_lists,  \* output of flatten_list_hierarchy
    lpc,              \* position of the list engine
    list_blocks,      \* output of process_docx_lists
    all_list_items,   \* input of group_list_items: num_id -> items, in dict order
    body,             \* the elements of the DOCX body
    element_count,    \* process_docx_body: number of the element being processed
    body_blocks,      \* process_docx_body: blocks, the blocks emitted so far
    block_origin,     \* for each emitted block, the number of its source element
    current_list_items,    \* process_docx_body: the pending list items
    current_list_type,
    in_list_context,
    previous_element_type,
    previous_block,   \* index in blocks of the block previous_block refers to, 0 for None
    pending_caption,
    image_has_caption,
    failed_elements,  \* numbers of the elements whose processing raised
    dpc,              \* position of process_docx_body
    paragraph,        \* input of process_docx_paragraph
    paragraph_block,  \* its result
    code,             \* input of detect_code_language
    detected,         \* its result
    cpc,              \* position of the classifiers
    drawings,         \* the drawing elements handed to process_docx_image, in document order
    drawing_count,    \* how many of them were processed
    image_blocks,     \* the image blocks emitted for them
    image_origin      \* for each emitted image block, the number of its drawing

publishVars == <<pc, content_blocks, description, cover_image, i, story, placeholder_ids,
                 parsed_blocks, image_dimensions, remote_listing, remote_files,
                 remote_canonical, remote_log, main_data, main_source,
                 replacements, result, response>>
listVars == <<grouped_lists, flattened_lists, lpc, list_blocks>>
docxVars == <<body, element_count, body_blocks, block_origin, current_list_items,
              current_list_type, in_list_context, previous_element_type,
              previous_block, pending_caption, image_has_caption, failed_elements, dpc>>
classifyVars == <<paragraph, paragraph_block, code, detected, cpc>>
imageVars == <<drawings, drawing_count, image_blocks, image_origin>>
parserVars == <<listVars, all_list_items, docxVars, classifyVars, imageVars>>
vars == <<publishVars, parserVars>>

----------------------------------------------------------------------------
(* Python values *)

\* d[k] = v on a dict
Put(d, k, v) == (k :> v) @@ d

\* d.pop(k, None)
Pop(d, k) == [x \in (DOMAIN d) \ {k} |-> d[x]]

EmptyDict == <<>>

\* truth value of an opaque string or None
Truthy(s) == s \notin {"None", ""}

\* s.strip() == "" : every token is white space
IsBlank(s) == \A k \in 1..Len(s) : s[k] = " "

Ellipsis == <<"...">>

\* the test of create_storymap, add_text_block and update_storymap_content:
\* not text_content or text_content.strip() == "" or text_content == "..."
IsEmptyContent(s) == s = <<>> \/ IsBlank(s) \/ s = Ellipsis

\* str(n) for the indexes the model reaches
RECURSIVE IntToStr(_)
IntToStr(n) ==
    IF n < 10
    THEN <<"0", "1", "2", "3", "4", "5", "6", "7", "8", "9">>[n + 1]
    ELSE IntToStr(n \div 10) \o IntToStr(n % 10)

PlaceholderTextPrefix == "PLACEHOLDER_TEXT_"
PlaceholderCodePrefix == "PLACEHOLDER_CODE_"

\* a marker that leaves the block index out
PlaceholderText_NoIndex(n) == <<PlaceholderTextPrefix>>

\* f"PLACEHOLDER_TEXT_{i}"
PlaceholderText(n) == <<PlaceholderTextPrefix, IntToStr(n)>>

\* f"PLACEHOLDER_CODE_{i}"
PlaceholderCode(n) == <<PlaceholderCodePrefix, IntToStr(n)>>

\* a test for the marker of block 0 alone
StartsWithPlaceholderText_FirstOnly(s) == s = <<PlaceholderTextPrefix, "0">>

\* current_text.startswith("PLACEHOLDER_TEXT_")
StartsWithPlaceholderText(s) == Len(s) >= 1 /\ s[1] = PlaceholderTextPrefix

----------------------------------------------------------------------------
(* Content blocks: what create_text_block ... create_separator_block build *)

create_text_block(text_type, text_content, alignment) ==
    [type |-> "text", text_type |-> text_type, text |-> text_content,
     alignment |-> alignment]

create_image_block(image_path, caption, display, float_alignment) ==
    [type |-> "image", path |-> image_path, caption |-> caption,
     display |-> display, float_alignment |-> float_alignment]

create_table_block(rows, caption) ==
    [type |-> "table", rows |-> rows, caption |-> caption]

\* language is the tag detect_code_language chose
create_code_block(code_content, language) ==
    [type |-> "code", code |-> code_content, language |-> language]

create_separator_block == [type |-> "separator"]

\* extract_image_dimensions: what PIL reads from the file, <<>> for None
extract_image_dimensions(image_path) ==
    CASE image_path = "a.png" -> <<800, 600>>
      [] image_path = "b.png" -> <<1600, 900>>
      [] image_path = "cover.jpg" -> <<1920, 1080>>
      [] OTHER -> <<>>

\* The blocks a run is given: every variant, and for text and code the
\* empty, white-space and ellipsis contents next to ordinary ones.
BlockSamples ==
    { create_text_block("paragraph", <<"a">>, "None"),
      create_text_block("h2", <<"b">>, "center"),
      create_text_block("paragraph", <<>>, "right"),
      create_text_block("paragraph", <<" ">>, "center"),
      create_text_block("paragraph", Ellipsis, "None"),
      create_code_block(<<"x">>, "py"),
      create_code_block(Ellipsis, "txt"),
      create_image_block("a.png", "cap", "float", "start"),
      create_image_block("b.png", "None", "wide", "None"),
      create_image_block("c.gif", "", "float", "None"),
      create_table_block(<< <<"h1", "h2">>, <<"c1">> >>, "tcap"),
      create_separator_block }

RECURSIVE SeqsUpTo(_, _)
SeqsUpTo(S, n) ==
    IF n = 0 THEN {<<>>}
    ELSE LET shorter == SeqsUpTo(S, n - 1)
         IN shorter \cup {Append(s, x) : s \in {t \in shorter : Len(t) = n - 1}, x \in S}

----------------------------------------------------------------------------
(* The platform's StoryMap object, as far as the program observes it *)

\* StoryMap(gis=gis): a new story holds its cover node and no resource
NewStory ==
    [root |-> "story",
     nodes |-> [order |-> <<1>>,
                byId |-> (1 :> [type |-> "storycover",
                                data |-> [title |-> "None", summary |-> "None"]])],
     resources |-> EmptyDict]

NextNodeId(s) == Len(s.nodes.order) + 1

NextResourceId(s) == Cardinality(DOMAIN s.resources) + 1

\* story.add(...): the node gets a fresh id and is appended to the document
StoryAdd(s, node) ==
    [s EXCEPT !.nodes = [order |-> Append(@.order, NextNodeId(s)),
                         byId |-> Put(@.byId, NextNodeId(s), node)]]

\* StoryImage(path): the image's resource record
ImageResource(image_path) ==
    [type |-> "image",
     data |-> [resourceId |-> image_path, provider |-> "item-resource",
               width |-> 0, height |-> 0]]

\* Text(content, style) as a node
TextNode(content, text_style) ==
    [type |-> "text", data |-> [type |-> text_style, text |-> content]]

\* story.cover(title, summary, image)
StoryCover(s, image_path) ==
    IF image_path = "None"
    THEN [s EXCEPT !.nodes.byId[1].data = [title |-> "title", summary |-> "summary"]]
    ELSE [s EXCEPT !.nodes.byId[1].data =
                       [title |-> "title", summary |-> "summary",
                        image |-> NextResourceId(s)],
                   !.resources = Put(@, NextResourceId(s), ImageResource(image_path))]

\* f"{block_type}_{i}"
PlaceholderKey(block_type, n) == <<block_type, n>>

DescriptionKey == <<"description", -1>>

LogCall(log, call, arg) == Append(log, [call |-> call, arg |-> arg])

----------------------------------------------------------------------------
(* Phase 1: create_storymap *)

\* process_cover_image: the cover's dimensions are recorded under 'cover_image'
process_cover_image(dims, image_path) ==
    IF image_path # "None" /\ extract_image_dimensions(image_path) # <<>>
    THEN Put(dims, "cover_image", extract_image_dimensions(image_path))
    ELSE dims

\* the if/elif chain of add_text_block
TextStyleOf(text_type) ==
    CASE text_type = "bullet-list" -> "BULLETLIST"
      [] text_type = "numbered-list" -> "NUMBERLIST"
      [] text_type = "h2" -> "HEADING"
      [] text_type = "h3" -> "HEADING2"
      [] text_type = "h4" -> "HEADING3"
      [] text_type = "quote" -> "QUOTE"
      [] text_type = "large-paragraph" -> "LARGEPARAGRAPH"
      [] OTHER -> "PARAGRAPH"

\* the entry add_text_block stores in parsed_blocks
TextEntry(block) ==
    [type |-> "text", text_type |-> block.text_type, text |-> block.text,
     alignment |-> block.alignment]

\* the entry add_code_block stores in parsed_blocks
CodeEntry(block) ==
    [type |-> "code", code |-> block.code, language |-> block.language]

\* the entry add_image_block stores in parsed_blocks: the block itself, with
\* original_path and, when PIL could read the file, dimensions
ImageEntry(block) ==
    LET withPath == Put(block, "original_path", block.path)
        dims == extract_image_dimensions(block.path)
    IN IF dims # <<>> THEN Put(withPath, "dimensions", dims) ELSE withPath

\* the node story.add(img, caption, alt_text, display, position) creates
ImageNode(block, resource_id) ==
    [type |-> "image",
     data |-> [image |-> resource_id, caption |-> block.caption, alt |-> ""],
     config |-> [size |-> block.display]]

\* max(len(row) for row in rows)
RECURSIVE MaxRowLen(_)
MaxRowLen(rows) ==
    IF rows = <<>> THEN 0
    ELSE LET rest == MaxRowLen(Tail(rows))
         IN IF Len(Head(rows)) > rest THEN Len(Head(rows)) ELSE rest

\* the node story.add(Table(num_rows, num_cols), caption) creates
TableNode(block) ==
    [type |-> "table",
     data |-> [numRows |-> Len(block.rows),
               numColumns |-> IF block.rows # <<>> THEN MaxRowLen(block.rows) ELSE 2,
               caption |-> block.caption]]

\* create_storymap up to the loop: the story, its cover and the description
CreateStory ==
    /\ pc = "create"
    /\ LET covered == StoryCover(NewStory, cover_image)
           node_id == NextNodeId(covered)
       IN IF Truthy(description)
          THEN /\ story' = StoryAdd(covered, TextNode(<<description>>, "PARAGRAPH"))
               /\ placeholder_ids' = Put(EmptyDict, DescriptionKey, node_id)
               /\ parsed_blocks' = Put(EmptyDict, node_id,
                                       [type |-> "text", text_type |-> "paragraph",
                                        text |-> <<description>>])
               /\ remote_log' = LogCall(remote_log, "story.add", node_id)
          ELSE /\ story' = covered
               /\ placeholder_ids' = EmptyDict
               /\ parsed_blocks' = EmptyDict
               /\ UNCHANGED remote_log
    /\ image_dimensions' = process_cover_image(EmptyDict, cover_image)
    /\ i' = 0
    /\ pc' = "blocks"
    /\ UNCHANGED <<content_blocks, description, cover_image, response, remote_listing,
                   remote_files, remote_canonical, main_data, main_source,
                   replacements, result>>
    /\ UNCHANGED parserVars

\* the loop body without its test for empty text
CreatesNode_EmptyTextKept(block) ==
    block.type \in {"text", "separator", "image", "table", "code"}

\* whether the loop body of create_storymap creates a node for this block
CreatesNode(block) ==
    CASE block.type = "text" -> ~IsEmptyContent(block.text)
      [] block.type \in {"separator", "image", "table", "code"} -> TRUE
      [] OTHER -> FALSE

\* the node the loop body asks the platform to create for block number n
PlaceholderNode(block, n, s) ==
    CASE block.type = "separator" -> [type |-> "separator"]
      [] block.type = "image" -> ImageNode(block, NextResourceId(s))
      [] block.type = "text" -> TextNode(PlaceholderText(n), TextStyleOf(block.text_type))
      [] block.type = "table" -> TableNode(block)
      [] block.type = "code" -> TextNode(PlaceholderCode(n), "PARAGRAPH")

\* the entry the loop body records in parsed_blocks
PlaceholderEntry(block) ==
    CASE block.type = "text" -> TextEntry(block)
      [] block.type = "code" -> CodeEntry(block)
      [] block.type = "image" -> ImageEntry(block)
      [] OTHER -> block

\* one iteration of `for i, block in enumerate(content_blocks)`
AddBlock ==
    /\ pc = "blocks"
    /\ i < Len(content_blocks)
    /\ LET block == content_blocks[i + 1]
           node_id == NextNodeId(story)
           withResource ==
               IF block.type = "image"
               THEN [story EXCEPT !.resources =
                         Put(@, NextResourceId(story), ImageResource(block.path))]
               ELSE story
       IN IF CreatesNode(block)
          THEN /\ story' = StoryAdd(withResource, PlaceholderNode(block, i, story))
               /\ placeholder_ids' =
                      Put(placeholder_ids, PlaceholderKey(block.type, i), node_id)
               /\ parsed_blocks' = Put(parsed_blocks, node_id, PlaceholderEntry(block))
               /\ remote_log' = LogCall(remote_log, "story.add", node_id)
               \* parsed_blocks[node_id] = block aliases the image block
               /\ content_blocks' = IF block.type = "image"
                                    THEN [content_blocks EXCEPT ![i + 1] = ImageEntry(block)]
                                    ELSE content_blocks
               /\ image_dimensions' =
                      IF block.type = "image" /\ extract_image_dimensions(block.path) # <<>>
                      THEN Put(image_dimensions, block.path,
                               extract_image_dimensions(block.path))
                      ELSE image_dimensions
          ELSE UNCHANGED <<story, placeholder_ids, parsed_blocks, remote_log,
                           content_blocks, image_dimensions>>
    /\ i' = i + 1
    /\ UNCHANGED <<pc, description, cover_image, response, remote_listing, remote_files,
                   remote_canonical, main_data, main_source, replacements, result>>
    /\ UNCHANGED parserVars


----------------------------------------------------------------------------
(* The remote item after story.save *)

DraftPrefix == "draft_"

DraftName == <<DraftPrefix, "1.json">>

\* entries of storymap_item.resources.list()
ImageEntryOfListing == [resource |-> <<"a.png">>]
DraftEntryOfListing == [resource |-> DraftName]

\* what resources.get(name) returns: a dict, a str (that json.loads parses
\* or not), or an error raised by the call
DictContent(doc) == [kind |-> "dict", parses |-> TRUE, value |-> doc]
StrContent(parses, doc) == [kind |-> "str", parses |-> parses, value |-> doc]
ErrorContent == [kind |-> "error", parses |-> FALSE, value |-> EmptyDict]

\* a dict that is not empty and has no 'nodes' key
NoNodesDoc == [root |-> "story"]

\* The states story.save can leave the item in: the draft beside the item
\* data (the platform's normal case), no draft, a draft that does not parse,
\* a draft without nodes, a draft whose download raises, and an item
\* without usable data.
SavedItems(doc) ==
    { [listing |-> <<ImageEntryOfListing, DraftEntryOfListing>>,
       files |-> (DraftName :> DictContent(doc)), canonical |-> doc],
      [listing |-> <<ImageEntryOfListing>>,
       files |-> EmptyDict, canonical |-> doc],
      [listing |-> <<DraftEntryOfListing>>,
       files |-> (DraftName :> StrContent(FALSE, EmptyDict)), canonical |-> doc],
      [listing |-> <<DraftEntryOfListing>>,
       files |-> (DraftName :> StrContent(TRUE, NoNodesDoc)), canonical |-> doc],
      [listing |-> <<DraftEntryOfListing>>,
       files |-> (DraftName :> ErrorContent), canonical |-> doc],
      [listing |-> <<>>,
       files |-> EmptyDict, canonical |-> EmptyDict] }

\* storymap_item = story.save(title=title, tags=tags), the end of create_storymap
SaveStory ==
    /\ pc = "blocks"
    /\ i = Len(content_blocks)
    /\ \E item \in SavedItems(story) :
          /\ remote_listing' = item.listing
          /\ remote_files' = item.files
          /\ remote_canonical' = item.canonical
    /\ remote_log' = LogCall(remote_log, "story.save", 0)
    /\ pc' = "get"
    /\ UNCHANGED <<content_blocks, description, cover_image, response, i, story,
                   placeholder_ids, parsed_blocks, image_dimensions, main_data,
                   main_source, replacements, result>>
    /\ UNCHANGED parserVars

----------------------------------------------------------------------------
(* Phase 2: get_storymap_data *)

\* isinstance(resource, dict) and 'resource' in resource
\* and resource['resource'].startswith('draft_')
IsDraftEntry(resource) ==
    /\ "resource" \in DOMAIN resource
    /\ Len(resource.resource) >= 1
    /\ resource.resource[1] = DraftPrefix

\* the loop without its break: the last draft entry wins
FirstDraftIndex_NoBreak(resources) ==
    IF \E k \in 1..Len(resources) : IsDraftEntry(resources[k])
    THEN CHOOSE k \in 1..Len(resources) :
             /\ IsDraftEntry(resources[k])
             /\ \A j \in (k + 1)..Len(resources) : ~IsDraftEntry(resources[j])
    ELSE 0

\* the loop with break: the index of the first draft entry, 0 when none
FirstDraftIndex(resources) ==
    IF \E k \in 1..Len(resources) : IsDraftEntry(resources[k])
    THEN CHOOSE k \in 1..Len(resources) :
             /\ IsDraftEntry(resources[k])
             /\ \A j \in 1..(k - 1) : ~IsDraftEntry(resources[j])
    ELSE 0

\* `not main_data` for a dict or None (None is the empty value here)
IsFalsy(doc) == DOMAIN doc = {}

\* get_storymap_data: [status, source, data]; status "none" is `return None`,
\* "raised" an exception of resources.get
get_storymap_data(resources, files, canonical) ==
    LET k == FirstDraftIndex(resources)
        draft_content == files[resources[k].resource]
        from_draft ==
            IF k = 0 THEN EmptyDict
            ELSE IF draft_content.kind = "dict" THEN draft_content.value
            ELSE IF draft_content.parses THEN draft_content.value
            ELSE EmptyDict
        source == IF IsFalsy(from_draft) THEN "canonical" ELSE "draft"
        data == IF IsFalsy(from_draft) THEN canonical ELSE from_draft
    IN IF k # 0 /\ draft_content.kind = "error"
       THEN [status |-> "raised", source |-> "none", data |-> EmptyDict]
       ELSE IF IsFalsy(data) \/ "nodes" \notin DOMAIN data
            THEN [status |-> "none", source |-> source, data |-> data]
            ELSE [status |-> "ok", source |-> source, data |-> data]

\* main_data = get_storymap_data(storymap_item); if not main_data: return False
GetStep ==
    /\ pc = "get"
    /\ LET got == get_storymap_data(remote_listing, remote_files, remote_canonical)
       IN /\ main_source' = got.source
          /\ IF got.status = "ok"
             THEN /\ main_data' = got.data
                  /\ pc' = "content"
                  /\ UNCHANGED result
             ELSE /\ main_data' = EmptyDict
                  /\ pc' = "done"
                  /\ result' = "False"
    /\ UNCHANGED <<content_blocks, description, cover_image, response, i, story,
                   placeholder_ids, parsed_blocks, image_dimensions,
                   remote_listing, remote_files, remote_canonical, remote_log,
                   replacements>>
    /\ UNCHANGED parserVars


----------------------------------------------------------------------------
(* Phase 2: update_storymap_content *)

language_mapping ==
    [text |-> "txt", python |-> "py", javascript |-> "js", typescript |-> "ts",
     java |-> "java", csharp |-> "cs", html |-> "html", css |-> "css",
     ruby |-> "rb", php |-> "php", c |-> "c", cpp |-> "cpp", go |-> "go",
     sql |-> "sql", shell |-> "sh", xml |-> "xml", json |-> "json",
     yaml |-> "yaml", markdown |-> "md", r |-> "r", swift |-> "swift",
     kotlin |-> "kt"]

\* language_mapping.get(language, 'txt')
MappedLanguage(language) ==
    IF language \in DOMAIN language_mapping THEN language_mapping[language] ELSE "txt"

alignment_map ==
    [center |-> "center", right |-> "end", justify |-> "justify", left |-> "start"]

\* d.get(k, default)
Get(d, k, default) == IF k \in DOMAIN d THEN d[k] ELSE default

\* the code branch without node['type'] = 'code'
CodeNodeOf_KeepType(node, block) ==
    [node EXCEPT !.data = [content |-> Get(block, "code", <<>>),
                           lang |-> MappedLanguage(Get(block, "language", "text")),
                           lineNumbers |-> TRUE]]

\* the code branch: the node is retyped and its data replaced
CodeNodeOf(node, block) ==
    [node EXCEPT !.type = "code",
                 !.data = [content |-> Get(block, "code", <<>>),
                           lang |-> MappedLanguage(Get(block, "language", "text")),
                           lineNumbers |-> TRUE]]

\* the text branch once the placeholder matched and the content is not empty
TextNodeOf(node, block) ==
    LET text_content == Get(block, "text", <<>>)
        shown == IF text_content = <<>> \/ IsBlank(text_content)
                 THEN <<" ">> ELSE text_content
        alignment == Get(block, "alignment", "None")
        with_text == [node EXCEPT !.data = Put(@, "text", shown)]
    IN IF Truthy(alignment) /\ alignment \in DOMAIN alignment_map
       THEN [with_text EXCEPT !.data = Put(@, "textAlignment", alignment_map[alignment])]
       ELSE with_text

\* the keys str(0) .. str(n-1)
IndexKeys(n) == {IntToStr(k) : k \in 0..(n - 1)}

IndexOfKey(key, n) == CHOOSE k \in 0..(n - 1) : IntToStr(k) = key

\* node['data']['cells'][str(row_idx)][str(col_idx)] = {"value": cell_value}
RowCells(old, row) ==
    [c \in (DOMAIN old) \cup IndexKeys(Len(row)) |->
        IF c \in IndexKeys(Len(row))
        THEN [value |-> row[IndexOfKey(c, Len(row)) + 1]]
        ELSE old[c]]

TableCells(old, rows) ==
    [r \in (DOMAIN old) \cup IndexKeys(Len(rows)) |->
        IF r \in IndexKeys(Len(rows))
        THEN RowCells(Get(old, r, EmptyDict), rows[IndexOfKey(r, Len(rows)) + 1])
        ELSE old[r]]

\* the table branch
TableNodeOf(node, block) ==
    LET rows == Get(block, "rows", <<>>)
        sized == Put(Put(node.data, "numRows", Len(rows)),
                     "numColumns", IF rows # <<>> THEN MaxRowLen(rows) ELSE 0)
        celled == Put(sized, "cells", TableCells(Get(node.data, "cells", EmptyDict), rows))
    IN [node EXCEPT !.data =
            IF "caption" \in DOMAIN block /\ Truthy(block.caption)
            THEN Put(celled, "caption", block.caption)
            ELSE celled]

HasCaption(block) == "caption" \in DOMAIN block /\ Truthy(block.caption)

HasFloat(block) ==
    Get(block, "display", "None") = "float" /\ Truthy(Get(block, "float_alignment", "None"))

\* the image branch
ImageNodeOf(node, block) ==
    LET captioned == IF HasCaption(block)
                     THEN [node EXCEPT !.data = Put(@, "caption", block.caption)]
                     ELSE node
        config == Get(captioned, "config", EmptyDict)
    IN IF HasFloat(block)
       THEN Put(captioned, "config",
                Put(Put(config, "size", "float"), "floatAlignment", block.float_alignment))
       ELSE captioned

\* the number of replacements the image branch counts
ImageCount(block) ==
    (IF HasCaption(block) THEN 1 ELSE 0) + (IF HasFloat(block) THEN 1 ELSE 0)

Kept(node, count) == [node |-> node, count |-> count, deleted |-> FALSE]

\* the body of `for node_id, node in main_data['nodes'].items()`
UpdateNode(node_id, node, blocks) ==
    LET mapped == node_id \in DOMAIN blocks
        block == blocks[node_id]
    IN IF node.type = "text" /\ mapped /\ block.type = "code"
       THEN Kept(CodeNodeOf(node, block), 1)
       ELSE IF node.type = "text" /\ "data" \in DOMAIN node /\ "text" \in DOMAIN node.data
       THEN IF StartsWithPlaceholderText(node.data.text) /\ mapped /\ block.type = "text"
            THEN IF IsEmptyContent(Get(block, "text", <<>>))
                 THEN [node |-> node, count |-> 0, deleted |-> TRUE]
                 ELSE Kept(TextNodeOf(node, block), 1)
            ELSE Kept(node, 0)
       ELSE IF node.type = "table" /\ "data" \in DOMAIN node
       THEN IF mapped /\ block.type = "table"
            THEN Kept(TableNodeOf(node, block), 1)
            ELSE Kept(node, 0)
       ELSE IF node.type = "image" /\ "data" \in DOMAIN node /\ mapped
       THEN Kept(ImageNodeOf(node, block), ImageCount(block))
       ELSE Kept(node, 0)

\* main_data['nodes'].pop(node_id, None)
RemoveNode(nodes, node_id) ==
    [order |-> SelectSeq(nodes.order, LAMBDA n : n # node_id),
     byId |-> Pop(nodes.byId, node_id)]

\* The walk over the nodes, from position k of the order the iteration
\* started with.  A pop changes the dict's size, so the iterator raises
\* RuntimeError when asked for the next node: the walk ends there.
RECURSIVE WalkNodes(_, _, _, _, _)
WalkNodes(order, k, data, blocks, count) ==
    IF k > Len(order)
    THEN [data |-> data, replacements |-> count, raised |-> FALSE]
    ELSE LET node_id == order[k]
             step == UpdateNode(node_id, data.nodes.byId[node_id], blocks)
         IN IF step.deleted
            THEN [data |-> [data EXCEPT !.nodes = RemoveNode(@, node_id)],
                  replacements |-> count, raised |-> TRUE]
            ELSE WalkNodes(order, k + 1,
                           [data EXCEPT !.nodes.byId[node_id] = step.node],
                           blocks, count + step.count)

update_storymap_content(data, blocks) ==
    WalkNodes(data.nodes.order, 1, data, blocks, 0)

\* replacements = update_storymap_content(main_data, parsed_blocks)
ContentStep ==
    /\ pc = "content"
    /\ LET walked == update_storymap_content(main_data, parsed_blocks)
       IN /\ main_data' = walked.data
          /\ IF walked.raised
             THEN /\ pc' = "done"
                  /\ result' = "False"
                  /\ UNCHANGED replacements
             ELSE /\ pc' = "dims"
                  /\ replacements' = walked.replacements
                  /\ UNCHANGED result
    /\ UNCHANGED <<content_blocks, description, cover_image, response, i, story,
                   placeholder_ids, parsed_blocks, image_dimensions,
                   remote_listing, remote_files, remote_canonical, remote_log,
                   main_source>>
    /\ UNCHANGED parserVars

----------------------------------------------------------------------------
(* Phase 2: update_image_dimensions *)

\* the inner loop without `if image_ref == resource_id`
DimensionNodes_AnyImage(data, blocks, resource_id) ==
    {k \in 1..Len(data.nodes.order) :
        LET node_id == data.nodes.order[k]
            node == data.nodes.byId[node_id]
        IN /\ node.type = "image"
           /\ "data" \in DOMAIN node
           /\ "image" \in DOMAIN node.data
           /\ node_id \in DOMAIN blocks
           /\ "dimensions" \in DOMAIN blocks[node_id]}

\* the positions of the nodes that make the inner loop reach its break
DimensionNodes(data, blocks, resource_id) ==
    {k \in 1..Len(data.nodes.order) :
        LET node_id == data.nodes.order[k]
            node == data.nodes.byId[node_id]
        IN /\ node.type = "image"
           /\ "data" \in DOMAIN node
           /\ "image" \in DOMAIN node.data
           /\ node.data.image = resource_id
           /\ node_id \in DOMAIN blocks
           /\ "dimensions" \in DOMAIN blocks[node_id]}

Min(S) == CHOOSE x \in S : \A y \in S : x <= y

\* the resource record after the loop body for resource_id
UpdateResource(data, blocks, resource_id) ==
    LET resource == data.resources[resource_id]
        hits == DimensionNodes(data, blocks, resource_id)
        dims == blocks[data.nodes.order[Min(hits)]].dimensions
    IN IF /\ resource.type = "image"
          /\ "data" \in DOMAIN resource
          /\ "resourceId" \in DOMAIN resource.data
          /\ hits # {}
       THEN [resource EXCEPT !.data = Put(Put(@, "width", dims[1]), "height", dims[2])]
       ELSE resource

update_image_dimensions(data, blocks) ==
    [data EXCEPT !.resources =
        [resource_id \in DOMAIN data.resources |-> UpdateResource(data, blocks, resource_id)]]

\* if 'resources' in main_data and image_dimensions: update_image_dimensions(...)
DimsStep ==
    /\ pc = "dims"
    /\ main_data' = IF "resources" \in DOMAIN main_data /\ image_dimensions # EmptyDict
                    THEN update_image_dimensions(main_data, parsed_blocks)
                    ELSE main_data
    /\ pc' = "save_main"
    /\ UNCHANGED <<content_blocks, description, cover_image, response, i, story,
                   placeholder_ids, parsed_blocks, image_dimensions,
                   remote_listing, remote_files, remote_canonical, remote_log,
                   main_source, replacements, result>>
    /\ UNCHANGED parserVars

----------------------------------------------------------------------------
(* Phase 2: save_storymap_updates *)

\* storymap_item.update(data=main_data) with its failure passed over: the
\* draft step follows either way
SaveMainStep_FailurePassedOver ==
    /\ pc = "save_main"
    /\ remote_log' = LogCall(remote_log, "item.update", 0)
    /\ \E updated \in BOOLEAN :
          remote_canonical' = IF updated THEN main_data ELSE remote_canonical
    /\ pc' = "save_draft"
    /\ UNCHANGED <<content_blocks, description, cover_image, response, i, story,
                   placeholder_ids, parsed_blocks, image_dimensions,
                   remote_listing, remote_files, main_data, main_source,
                   replacements, result>>
    /\ UNCHANGED parserVars

\* storymap_item.update(data=main_data): it returns, or it raises and
\* update_storymap_json returns False
SaveMainStep ==
    /\ pc = "save_main"
    /\ remote_log' = LogCall(remote_log, "item.update", 0)
    /\ \E updated \in BOOLEAN :
          IF updated
          THEN /\ remote_canonical' = main_data
               /\ pc' = "save_draft"
               /\ UNCHANGED result
          ELSE /\ pc' = "done"
               /\ result' = "False"
               /\ UNCHANGED remote_canonical
    /\ UNCHANGED <<content_blocks, description, cover_image, response, i, story,
                   placeholder_ids, parsed_blocks, image_dimensions,
                   remote_listing, remote_files, main_data, main_source,
                   replacements>>
    /\ UNCHANGED parserVars

\* save_storymap_updates with a missing draft treated as a failure
SaveDraftStep_DraftRequired ==
    /\ pc = "save_draft"
    /\ result' = "False"
    /\ pc' = "done"
    /\ UNCHANGED <<content_blocks, description, cover_image, response, i, story,
                   placeholder_ids, parsed_blocks, image_dimensions,
                   remote_listing, remote_files, remote_canonical, remote_log,
                   main_data, main_source, replacements>>
    /\ UNCHANGED parserVars

\* the answers of the updateResources call
UploadOutcomes == {"success", "rejected", "raised"}

\* the second half of save_storymap_updates: find the draft, upload it
SaveDraftStep ==
    /\ pc = "save_draft"
    /\ LET k == FirstDraftIndex(remote_listing)
       IN IF k = 0
          THEN /\ result' = "True"
               /\ UNCHANGED <<remote_files, remote_log, response>>
          ELSE \E outcome \in UploadOutcomes :
                  /\ response' = outcome
                  /\ remote_log' = LogCall(remote_log, "updateResources", 0)
                  /\ remote_files' =
                         IF outcome = "success"
                         THEN Put(remote_files, remote_listing[k].resource,
                                  DictContent(main_data))
                         ELSE remote_files
                  /\ result' = IF outcome = "success" THEN "True" ELSE "False"
    /\ pc' = "done"
    /\ UNCHANGED <<content_blocks, description, cover_image, i, story,
                   placeholder_ids, parsed_blocks, image_dimensions,
                   remote_listing, remote_canonical, main_data, main_source,
                   replacements>>
    /\ UNCHANGED parserVars

----------------------------------------------------------------------------
(* The run of main from create_storymap to the end of update_storymap_json *)

Descriptions == {"", "About", " "}

CoverImages == {"None", "cover.jpg"}

ListIdle ==
    /\ grouped_lists = <<>>
    /\ flattened_lists = <<>>
    /\ lpc = "idle"
    /\ list_blocks = <<>>

DocxIdle ==
    /\ body = <<>>
    /\ element_count = 0
    /\ body_blocks = <<>>
    /\ block_origin = <<>>
    /\ current_list_items = <<>>
    /\ current_list_type = "None"
    /\ in_list_context = FALSE
    /\ previous_element_type = "None"
    /\ previous_block = 0
    /\ pending_caption = <<>>
    /\ image_has_caption = FALSE
    /\ failed_elements = {}
    /\ dpc = "idle"

ClassifyIdle ==
    /\ paragraph = EmptyDict
    /\ paragraph_block = EmptyDict
    /\ code = EmptyDict
    /\ detected = "None"
    /\ cpc = "idle"

ImageIdle ==
    /\ drawings = <<>>
    /\ drawing_count = 0
    /\ image_blocks = <<>>
    /\ image_origin = <<>>

ParserIdle ==
    /\ ListIdle
    /\ all_list_items = <<>>
    /\ DocxIdle
    /\ ImageIdle
    /\ ClassifyIdle

Init ==
    /\ pc = "create"
    /\ content_blocks \in SeqsUpTo(BlockSamples, MaxBlocks)
    /\ description \in Descriptions
    /\ cover_image \in CoverImages
    /\ i = 0
    /\ story = NewStory
    /\ placeholder_ids = EmptyDict
    /\ parsed_blocks = EmptyDict
    /\ image_dimensions = EmptyDict
    /\ remote_listing = <<>>
    /\ remote_files = EmptyDict
    /\ remote_canonical = EmptyDict
    /\ remote_log = <<>>
    /\ main_data = EmptyDict
    /\ main_source = "none"
    /\ replacements = 0
    /\ result = "pending"
    /\ response = "none"
    /\ ParserIdle

\* main after update_storymap_json(...) returned: the call's value is not
\* bound to a name; main logs "StoryMap created successfully!" and returns
\* the item
MainReturn ==
    /\ pc = "done"
    /\ pc' = "created_successfully"
    /\ UNCHANGED <<content_blocks, description, cover_image, response, i, story,
                   placeholder_ids, parsed_blocks, image_dimensions,
                   remote_listing, remote_files, remote_canonical, remote_log,
                   main_data, main_source, replacements, result>>
    /\ UNCHANGED parserVars

Next ==
    \/ CreateStory
    \/ AddBlock
    \/ SaveStory
    \/ GetStep
    \/ ContentStep
    \/ DimsStep
    \/ SaveMainStep
    \/ SaveDraftStep
    \/ MainReturn

Spec == Init /\ [][Next]_vars


----------------------------------------------------------------------------
(* get_storymap_data on its own: every listing of at most MaxResources     *)
(* entries, with two draft resources, an image and an entry that has no    *)
(* 'resource' key                                                          *)

Draft2Name == <<DraftPrefix, "2.json">>

Draft2EntryOfListing == [resource |-> Draft2Name]

UnnamedEntryOfListing == [name |-> <<"thumbnail">>]

FetchEntries ==
    {ImageEntryOfListing, DraftEntryOfListing, Draft2EntryOfListing,
     UnnamedEntryOfListing}

EmptyNodes == [order |-> <<>>, byId |-> EmptyDict]

DocOf(origin) == [root |-> origin, nodes |-> EmptyNodes]

FirstDraftContents ==
    {DictContent(DocOf("draft1")), StrContent(TRUE, DocOf("draft1")),
     StrContent(FALSE, EmptyDict), StrContent(TRUE, EmptyDict),
     DictContent(NoNodesDoc), ErrorContent}

SecondDraftContents == {DictContent(DocOf("draft2")), StrContent(FALSE, EmptyDict)}

CanonicalDocs == {DocOf("item"), NoNodesDoc, EmptyDict}

InitFetch ==
    /\ pc = "get"
    /\ content_blocks = <<>>
    /\ description = ""
    /\ cover_image = "None"
    /\ i = 0
    /\ story = NewStory
    /\ placeholder_ids = EmptyDict
    /\ parsed_blocks = EmptyDict
    /\ image_dimensions = EmptyDict
    /\ remote_listing \in SeqsUpTo(FetchEntries, MaxResources)
    /\ \E first \in FirstDraftContents, second \in SecondDraftContents :
          remote_files = (DraftName :> first) @@ (Draft2Name :> second)
    /\ remote_canonical \in CanonicalDocs
    /\ remote_log = <<>>
    /\ main_data = EmptyDict
    /\ main_source = "none"
    /\ replacements = 0
    /\ result = "pending"
    /\ response = "none"
    /\ ParserIdle

NextFetch == GetStep

SpecFetch == InitFetch /\ [][NextFetch]_vars

----------------------------------------------------------------------------
(* Claims about the publish protocol *)

\* update_storymap_content ran to its end on main_data
ContentDone ==
    \/ pc \in {"dims", "save_main", "save_draft"}
    \/ pc = "done" /\ result = "True"

\* the node's text is one of Phase 1's markers
HoldsMarker(node) ==
    /\ "data" \in DOMAIN node
    /\ "text" \in DOMAIN node.data
    /\ Len(node.data.text) >= 1
    /\ node.data.text[1] \in {PlaceholderTextPrefix, PlaceholderCodePrefix}

BlockKeys == (DOMAIN placeholder_ids) \ {DescriptionKey}

\* C1: after Phase 1 and a completed Phase 2 on the document Phase 1
\* produced, every node the Placeholder Map records for a Text block is a
\* text node holding that block's text, and no node of the document holds a
\* PLACEHOLDER_TEXT_ or PLACEHOLDER_CODE_ marker.
C1_PlaceholdersReplaced ==
    ContentDone =>
        /\ \A n \in DOMAIN parsed_blocks :
              parsed_blocks[n].type = "text" =>
                  /\ n \in DOMAIN main_data.nodes.byId
                  /\ main_data.nodes.byId[n].type = "text"
                  /\ main_data.nodes.byId[n].data.text = parsed_blocks[n].text
        /\ \A n \in DOMAIN main_data.nodes.byId : ~HoldsMarker(main_data.nodes.byId[n])

\* Phase 2 ended with success on a story that had a text placeholder that is
\* not block 0 and a code placeholder
C1_Witness ==
    /\ pc = "done"
    /\ result = "True"
    /\ \E k \in BlockKeys : k[1] = "text" /\ k[2] > 0
    /\ \E k \in BlockKeys : k[1] = "code"
    /\ \E n \in DOMAIN story.nodes.byId : HoldsMarker(story.nodes.byId[n])

\* the content of a text or code block
ContentOf(block) == IF block.type = "text" THEN block.text ELSE block.code

\* C2: in Phase 1 a Text or Code block whose content is empty, white space
\* or "..." gets no node and no entry in the Placeholder Map, and every other
\* block gets exactly one node.
C2_EmptyBlocksSkipped ==
    pc # "create" =>
        /\ \A k \in 0..(i - 1) :
              LET block == content_blocks[k + 1]
              IN IF block.type \in {"text", "code"} /\ IsEmptyContent(ContentOf(block))
                 THEN <<block.type, k>> \notin DOMAIN placeholder_ids
                 ELSE <<block.type, k>> \in DOMAIN placeholder_ids
        /\ Cardinality(DOMAIN parsed_blocks) = Cardinality(DOMAIN placeholder_ids)
        /\ Len(story.nodes.order) = 1 + Cardinality(DOMAIN placeholder_ids)

\* the position of a node in the document
PositionOf(order, node_id) == CHOOSE k \in 1..Len(order) : order[k] = node_id

\* the node ids the story.add calls returned, in call order
RECURSIVE AddedNodes(_)
AddedNodes(log) ==
    IF log = <<>> THEN <<>>
    ELSE IF Head(log).call = "story.add"
         THEN <<Head(log).arg>> \o AddedNodes(Tail(log))
         ELSE AddedNodes(Tail(log))

UploadLogged(log) == \E k \in 1..Len(log) : log[k].call = "updateResources"

UpdateLogged(log) == \E k \in 1..Len(log) : log[k].call = "item.update"

\* C4: save_storymap_updates replaces the canonical item data before any
\* draft upload is attempted; without a draft resource it reports success
\* after the canonical write alone; when the upload fails after the canonical
\* write it reports failure and the canonical data stays replaced.
C4_CanonicalBeforeDraft ==
    [][ /\ (UploadLogged(remote_log') /\ ~UploadLogged(remote_log)) =>
               /\ UpdateLogged(remote_log)
               /\ remote_canonical = main_data
        /\ (pc = "save_main" /\ pc' = "save_draft") => remote_canonical' = main_data
        /\ (pc = "save_draft" /\ ~(\E k \in 1..Len(remote_listing) :
                                       IsDraftEntry(remote_listing[k]))) =>
               /\ result' = "True"
               /\ remote_log' = remote_log
               /\ remote_canonical' = main_data
        /\ (pc = "save_draft" /\ response' \in {"rejected", "raised"}) =>
               /\ result' = "False"
               /\ remote_canonical' = main_data ]_vars

\* the upload failed after the canonical data was replaced by a patched document
C4_Witness ==
    /\ pc = "done"
    /\ result = "False"
    /\ response = "rejected"
    /\ UploadLogged(remote_log)
    /\ remote_canonical = main_data
    /\ remote_canonical # story

\* the draft step ended with success without a draft resource
C4_NoDraftWitness ==
    /\ pc = "done"
    /\ result = "True"
    /\ ~UploadLogged(remote_log)
    /\ remote_canonical # story


\* resources.get returned a dict, or a str that json.loads turned into one
ParsesToDocument(content) ==
    /\ content.kind = "dict" \/ (content.kind = "str" /\ content.parses)
    /\ DOMAIN content.value # {}

DraftIndexes == {k \in 1..Len(remote_listing) : IsDraftEntry(remote_listing[k])}

ContentAt(k) == remote_files[remote_listing[k].resource]

\* get_storymap_data returned or raised
Fetched == pc # "get"

C5_DraftWitness ==
    /\ pc = "content"
    /\ main_source = "draft"
    /\ "nodes" \in DOMAIN remote_canonical

RecountedNodes(data, blocks) ==
    {n \in DOMAIN data.nodes.byId :
        /\ n \in DOMAIN blocks
        /\ \/ data.nodes.byId[n].type = "table" /\ blocks[n].type = "table"
           \/ data.nodes.byId[n].type = "image" /\ HasCaption(blocks[n])}

FloatNodes(data, blocks) ==
    {n \in DOMAIN data.nodes.byId :
        /\ n \in DOMAIN blocks
        /\ data.nodes.byId[n].type = "image"
        /\ HasFloat(blocks[n])}

\* C6 as amended: a second update_storymap_content with the same map on the
\* patched document deletes no node and leaves the document unchanged; its
\* count of replacements is one per table node, one per image caption and
\* one per image float alignment of the map, hence zero exactly when the map
\* holds no table and no image with a caption or a float alignment.
C6_SecondPassChangesNothing ==
    ContentDone =>
        LET again == update_storymap_content(main_data, parsed_blocks)
        IN /\ ~again.raised
           /\ again.data = main_data
           /\ again.replacements =
                  Cardinality(RecountedNodes(main_data, parsed_blocks))
                      + Cardinality(FloatNodes(main_data, parsed_blocks))

\* a patched document with a code node and a table node
C6_Witness ==
    /\ ContentDone
    /\ replacements >= 2
    /\ \E n \in DOMAIN main_data.nodes.byId : main_data.nodes.byId[n].type = "code"
    /\ \E n \in DOMAIN main_data.nodes.byId : main_data.nodes.byId[n].type = "table"

\* C6 as stated: the second pass reports zero replacements, deletes no node
\* and leaves the document unchanged.
C6_SecondPassZeroReplacements ==
    ContentDone =>
        LET again == update_storymap_content(main_data, parsed_blocks)
        IN /\ ~again.raised
           /\ again.data = main_data
           /\ again.replacements = 0

\* update_storymap_json went past update_image_dimensions
DimsDone ==
    \/ pc \in {"save_main", "save_draft"}
    \/ pc = "done" /\ result = "True"

\* the image nodes of the map that reference the resource and whose block
\* has recorded dimensions
SizedNodes(resource_id) ==
    {n \in DOMAIN main_data.nodes.byId :
        /\ main_data.nodes.byId[n].type = "image"
        /\ main_data.nodes.byId[n].data.image = resource_id
        /\ n \in DOMAIN parsed_blocks
        /\ "dimensions" \in DOMAIN parsed_blocks[n]}

\* C7: when Phase 2 ends, every image resource referenced by an image node
\* whose block has recorded dimensions (w, h) has width w and height h, and
\* every other resource is as Phase 1 left it.
C7_DimensionPatch ==
    DimsDone =>
        \A r \in DOMAIN main_data.resources :
            IF SizedNodes(r) # {}
            THEN \A n \in SizedNodes(r) :
                    /\ main_data.resources[r].data.width = parsed_blocks[n].dimensions[1]
                    /\ main_data.resources[r].data.height = parsed_blocks[n].dimensions[2]
                    /\ parsed_blocks[n].dimensions =
                           extract_image_dimensions(main_data.resources[r].data.resourceId)
            ELSE main_data.resources[r] = story.resources[r]

\* two images of different sizes were patched beside a cover image
C7_Witness ==
    /\ pc = "done"
    /\ result = "True"
    /\ \E r \in DOMAIN main_data.resources :
          main_data.resources[r].data.width = 800 /\ main_data.resources[r].data.height = 600
    /\ \E r \in DOMAIN main_data.resources : main_data.resources[r].data.width = 1600
    /\ \E r \in DOMAIN main_data.resources :
          main_data.resources[r].data.resourceId = "cover.jpg" /\ SizedNodes(r) = {}


----------------------------------------------------------------------------
(* The list engine: flatten_list_hierarchy *)

\* "--- " * n
RECURSIVE Repeat(_, _)
Repeat(token, n) == IF n <= 0 THEN <<>> ELSE <<token>> \o Repeat(token, n - 1)

\* min(item['level'] for item in group['items']) if group['items'] else 0
RECURSIVE min_level(_)
min_level(items) ==
    IF items = <<>> THEN 0
    ELSE IF Len(items) = 1 THEN items[1].level
    ELSE LET rest == min_level(Tail(items))
         IN IF items[1].level < rest THEN items[1].level ELSE rest

\* the loop body that adds the prefix and keeps the level
FlattenItem_KeepLevel(item, root_level) ==
    IF item.level - root_level > 1
    THEN [item EXCEPT !.text = Repeat("--- ", item.level - root_level - 1) \o @]
    ELSE item

\* the loop body with the prefix counted from the root level
FlattenItem_PrefixPerLevel(item, root_level) ==
    IF item.level - root_level > 0
    THEN [item EXCEPT !.text = Repeat("--- ", item.level - root_level) \o @,
                      !.level = root_level + 1]
    ELSE item

\* the loop body with one prefix too many
FlattenItem_ExtraPrefix(item, root_level) ==
    IF item.level - root_level > 1
    THEN [item EXCEPT !.text = Repeat("--- ", item.level - root_level) \o @,
                      !.level = root_level + 1]
    ELSE item

\* the body of `for item in group['items']`
FlattenItem(item, root_level) ==
    LET relative_level == item.level - root_level
        excess_depth == relative_level - 1
    IN IF relative_level > 1
       THEN [item EXCEPT !.text = Repeat("--- ", excess_depth) \o @,
                         !.level = root_level + 1]
       ELSE item

\* the body of `for group_id, group in grouped_lists.items()`
FlattenGroup(group) ==
    [type |-> group.type,
     document_position |-> group.document_position,
     items |-> [k \in DOMAIN group.items |->
                   FlattenItem(group.items[k], min_level(group.items))]]

\* grouped_lists is the dict group_0, group_1, ... in insertion order
flatten_list_hierarchy(groups) == [g \in DOMAIN groups |-> FlattenGroup(groups[g])]

Letters == <<"A", "B", "C", "D", "E", "F", "G", "H">>

ListTypes == {"bullet-list", "numbered-list"}

\* a group as group_list_items builds it: group_index counts the items, and
\* the type is that of the first level-0 item, None when there is none
GroupOf(type, position, levels, prefixed) ==
    [type |-> IF \E k \in DOMAIN levels : levels[k] = 0 THEN type ELSE "None",
     document_position |-> position,
     items |-> [k \in DOMAIN levels |->
                   [text |-> IF prefixed THEN <<"--- ", Letters[k]>> ELSE <<Letters[k]>>,
                    level |-> levels[k],
                    original_type |-> "bullet-list",
                    group_index |-> k - 1]]]

GroupSamples ==
    {GroupOf(type, position, levels, prefixed) :
        type \in ListTypes, position \in {0, 5},
        levels \in UNION {[1..n -> 0..MaxLevel] : n \in 1..MaxItems},
        prefixed \in BOOLEAN}

SecondGroup == GroupOf("numbered-list", 9, <<0, 3>>, FALSE)

PublishIdle ==
    /\ pc = "idle"
    /\ content_blocks = <<>>
    /\ description = ""
    /\ cover_image = "None"
    /\ i = 0
    /\ story = NewStory
    /\ placeholder_ids = EmptyDict
    /\ parsed_blocks = EmptyDict
    /\ image_dimensions = EmptyDict
    /\ remote_listing = <<>>
    /\ remote_files = EmptyDict
    /\ remote_canonical = EmptyDict
    /\ remote_log = <<>>
    /\ main_data = EmptyDict
    /\ main_source = "none"
    /\ replacements = 0
    /\ result = "pending"
    /\ response = "none"

InitFlatten ==
    /\ PublishIdle
    /\ grouped_lists \in {<<>>} \cup {<<g>> : g \in GroupSamples}
                            \cup {<<g, SecondGroup>> : g \in GroupSamples}
    /\ flattened_lists = <<>>
    /\ lpc = "grouped"
    /\ list_blocks = <<>>
    /\ all_list_items = <<>>
    /\ DocxIdle
    /\ ImageIdle
    /\ ClassifyIdle

\* flattened_lists = flatten_list_hierarchy(grouped_lists)
Flatten ==
    /\ lpc = "grouped"
    /\ flattened_lists' = flatten_list_hierarchy(grouped_lists)
    /\ lpc' = "flattened"
    /\ UNCHANGED <<grouped_lists, list_blocks, all_list_items, docxVars, classifyVars, imageVars>>
    /\ UNCHANGED publishVars

NextFlatten == Flatten

SpecFlatten == InitFlatten /\ [][NextFlatten]_vars

----------------------------------------------------------------------------
(* Claims about flatten_list_hierarchy *)

\* the smallest level of the items of a group
IsMinLevel(items, m) ==
    /\ \E k \in DOMAIN items : items[k].level = m
    /\ \A k \in DOMAIN items : items[k].level >= m

\* text ends with tail
EndsWith(text, tail) ==
    /\ Len(text) >= Len(tail)
    /\ SubSeq(text, Len(text) - Len(tail) + 1, Len(text)) = tail

\* C8: after flatten_list_hierarchy every item's level is min_level or
\* min_level + 1, min_level being the smallest level of the group before;
\* the number and order of the items and the group's type and
\* document_position are unchanged.
C8_TwoLevelsAfterFlatten ==
    lpc = "flattened" =>
        /\ DOMAIN flattened_lists = DOMAIN grouped_lists
        /\ \A g \in DOMAIN grouped_lists :
              LET before == grouped_lists[g]
                  after == flattened_lists[g]
              IN /\ after.type = before.type
                 /\ after.document_position = before.document_position
                 /\ Len(after.items) = Len(before.items)
                 /\ \A k \in DOMAIN before.items :
                       /\ after.items[k].group_index = before.items[k].group_index
                       /\ EndsWith(after.items[k].text, before.items[k].text)
                       /\ \A m \in 0..MaxLevel + 1 :
                             IsMinLevel(before.items, m) =>
                                 after.items[k].level \in {m, m + 1}

\* a group whose smallest level is not 0 had an item two levels deeper
C8_Witness ==
    /\ lpc = "flattened"
    /\ \E g \in DOMAIN grouped_lists :
          /\ IsMinLevel(grouped_lists[g].items, 1)
          /\ \E k \in DOMAIN grouped_lists[g].items :
                /\ grouped_lists[g].items[k].level = 3
                /\ flattened_lists[g].items[k].level = 2

\* C9: flatten_list_hierarchy is idempotent, item texts included.
C9_FlattenIdempotent ==
    lpc = "flattened" => flatten_list_hierarchy(flattened_lists) = flattened_lists

\* the first pass prefixed an item
C9_Witness ==
    /\ lpc = "flattened"
    /\ flattened_lists # grouped_lists
    /\ \E g \in DOMAIN flattened_lists : \E k \in DOMAIN flattened_lists[g].items :
          Len(flattened_lists[g].items[k].text) > Len(grouped_lists[g].items[k].text)

\* C10: an item with relative level r = level - min_level > 1 gets level
\* min_level + 1 and its text prefixed by "--- " exactly r - 1 times; an item
\* with r <= 1 keeps level and text; levels [0,1,2,1] with texts A, B, C, D
\* become levels [0,1,1,1] with texts A, B, "--- C", D.
C10_PrefixPerExcessLevel ==
    lpc = "flattened" =>
        \A g \in DOMAIN grouped_lists :
            LET before == grouped_lists[g].items
                after == flattened_lists[g].items
            IN /\ \A k \in DOMAIN before : \A m \in 0..MaxLevel + 1 :
                     IsMinLevel(before, m) =>
                         LET r == before[k].level - m
                         IN IF r > 1
                            THEN /\ after[k].level = m + 1
                                 /\ Len(after[k].text) = Len(before[k].text) + (r - 1)
                                 /\ \A j \in 1..(r - 1) : after[k].text[j] = "--- "
                                 /\ EndsWith(after[k].text, before[k].text)
                            ELSE after[k] = before[k]
               /\ ([k \in DOMAIN before |-> before[k].level] = <<0, 1, 2, 1>>
                   /\ [k \in DOMAIN before |-> before[k].text] =
                          << <<"A">>, <<"B">>, <<"C">>, <<"D">> >>)
                  => /\ [k \in DOMAIN after |-> after[k].level] = <<0, 1, 1, 1>>
                     /\ [k \in DOMAIN after |-> after[k].text] =
                            << <<"A">>, <<"B">>, <<"--- ", "C">>, <<"D">> >>

\* the example of the specification was flattened
C10_Witness ==
    /\ lpc = "flattened"
    /\ \E g \in DOMAIN grouped_lists :
          /\ [k \in DOMAIN grouped_lists[g].items |-> grouped_lists[g].items[k].level]
                 = <<0, 1, 2, 1>>
          /\ flattened_lists[g].items[3].text = <<"--- ", "C">>
          /\ flattened_lists[g].items[4].text = <<"D">>


----------------------------------------------------------------------------
(* The list engine: group_list_items *)

\* for num_id, items in all_list_items.items(): flat_item['num_id'] = num_id
RECURSIVE FlatItems(_)
FlatItems(all) ==
    IF all = <<>> THEN <<>>
    ELSE [k \in DOMAIN Head(all).items |->
             Put(Head(all).items[k], "num_id", Head(all).num_id)]
         \o FlatItems(Tail(all))

\* one insertion of a stable sort on x.get('element_index', 0)
InsertByIndex(sorted, x) ==
    LET before == SelectSeq(sorted, LAMBDA y : y.element_index <= x.element_index)
        after == SelectSeq(sorted, LAMBDA y : y.element_index > x.element_index)
    IN before \o <<x>> \o after

\* flat_items.sort(key=lambda x: x.get('element_index', 0))
RECURSIVE SortByIndex(_)
SortByIndex(items) ==
    IF items = <<>> THEN <<>>
    ELSE InsertByIndex(SortByIndex(SubSeq(items, 1, Len(items) - 1)), items[Len(items)])

NewGroup(position) == [type |-> "None", document_position |-> position, items |-> <<>>]

\* a new group at every level-0 item whose num_id differs from the previous item's
StartsNewGroup_AnyRoot(st, item) ==
    /\ item.level = 0
    /\ st.current_group.items # <<>>
    /\ item.num_id # st.current_num_id

\* start_new_group for the item at hand
StartsNewGroup(st, item) ==
    /\ item.level = 0
    /\ st.current_group.items # <<>>
    /\ st.last_level = 0
    /\ item.num_id # st.current_num_id

\* the group type follows the type of every item
GroupTypeAfter_LastItem(group, item) == item.type

\* current_group['type'] after the item was added
GroupTypeAfter(group, item) ==
    IF group.type = "None" /\ item.level = 0 THEN item.type ELSE group.type

\* the body of `for item in flat_items`
GroupStep(st, item) ==
    LET start == StartsNewGroup(st, item)
        groups == IF start THEN Append(st.groups, st.current_group) ELSE st.groups
        group == IF start THEN NewGroup(item.element_index) ELSE st.current_group
        new_item == [text |-> item.text, level |-> item.level,
                     original_type |-> item.type, group_index |-> Len(group.items)]
    IN [groups |-> groups,
        current_group |-> [group EXCEPT !.items = Append(@, new_item),
                                        !.type = GroupTypeAfter(group, item)],
        current_num_id |-> item.num_id,
        last_level |-> item.level]

RECURSIVE GroupWalk(_, _, _)
GroupWalk(flat_items, k, st) ==
    IF k > Len(flat_items) THEN st
    ELSE GroupWalk(flat_items, k + 1, GroupStep(st, flat_items[k]))

\* grouped_lists as the sequence group_0, group_1, ...
group_list_items(all) ==
    LET flat_items == SortByIndex(FlatItems(all))
        st == GroupWalk(flat_items, 1,
                        [groups |-> <<>>,
                         current_group |-> NewGroup(flat_items[1].element_index),
                         current_num_id |-> "None",
                         last_level |-> -1])
    IN IF flat_items = <<>> THEN <<>>
       ELSE IF st.current_group.items # <<>>
            THEN Append(st.groups, st.current_group)
            ELSE st.groups

NumIds == {"1", "2"}

\* the list paragraphs of a document, in document order: root items, their
\* children and grandchildren
ListParagraphs ==
    [num_id : NumIds, level : {0, 1, 2}, type : ListTypes]

\* the first positions at which each num_id occurs, in document order
FirstOccurrences(doc) ==
    SelectSeq([k \in DOMAIN doc |-> k],
              LAMBDA k : \A j \in 1..(k - 1) : doc[j].num_id # doc[k].num_id)

\* the items of one num_id with their positions in the document
ItemsOf(doc, num_id) ==
    LET at == SelectSeq([k \in DOMAIN doc |-> k], LAMBDA k : doc[k].num_id = num_id)
    IN [n \in DOMAIN at |->
           [text |-> <<Letters[at[n]]>>, level |-> doc[at[n]].level,
            type |-> doc[at[n]].type, element_index |-> at[n]]]

\* all_list_items: the list paragraphs collected per num_id
CollectByNumId(doc) ==
    LET first == FirstOccurrences(doc)
    IN [n \in DOMAIN first |->
           [num_id |-> doc[first[n]].num_id, items |-> ItemsOf(doc, doc[first[n]].num_id)]]

InitGroup ==
    /\ PublishIdle
    /\ DocxIdle
    /\ ImageIdle
    /\ ClassifyIdle
    /\ all_list_items \in {CollectByNumId(doc) : doc \in SeqsUpTo(ListParagraphs, MaxParas)}
    /\ grouped_lists = <<>>
    /\ flattened_lists = <<>>
    /\ list_blocks = <<>>
    /\ lpc = "collected"

\* grouped_lists = group_list_items(all_list_items, element_indices)
Group ==
    /\ lpc = "collected"
    /\ grouped_lists' = group_list_items(all_list_items)
    /\ lpc' = "grouped"
    /\ UNCHANGED <<flattened_lists, list_blocks, all_list_items, docxVars, classifyVars, imageVars>>
    /\ UNCHANGED publishVars

----------------------------------------------------------------------------
(* The list engine: generate_list_html and process_docx_lists *)

\* the first pass of generate_list_html: root items with their children; an
\* item below the root level that no root item precedes is left out
RECURSIVE ParentItems(_, _, _)
ParentItems(items, root_level, parents) ==
    IF items = <<>> THEN parents
    ELSE LET item == Head(items)
         IN IF item.level = root_level
            THEN ParentItems(Tail(items), root_level,
                             Append(parents, [text |-> item.text, children |-> <<>>]))
            ELSE IF parents # <<>>
            THEN ParentItems(Tail(items), root_level,
                             [parents EXCEPT ![Len(parents)].children =
                                  Append(@, item.text)])
            ELSE ParentItems(Tail(items), root_level, parents)

RECURSIVE ChildrenHtml(_)
ChildrenHtml(children) ==
    IF children = <<>> THEN <<>>
    ELSE <<"<li>">> \o Head(children) \o <<"</li>">> \o ChildrenHtml(Tail(children))

\* the nested tag taken from the type of each group's first item
ListTag_NumberedOnly(type) == "ol"

\* tag = 'ol' if group['type'] == 'numbered-list' else 'ul'
ListTag(type) == IF type = "numbered-list" THEN "ol" ELSE "ul"

RECURSIVE ParentsHtml(_, _)
ParentsHtml(parents, type) ==
    IF parents = <<>> THEN <<>>
    ELSE LET parent == Head(parents)
             nested == IF parent.children # <<>>
                       THEN <<"<", ListTag(type), ">">> \o ChildrenHtml(parent.children)
                            \o <<"</", ListTag(type), ">">>
                       ELSE <<>>
         IN <<"<li>">> \o parent.text \o nested \o <<"</li>">>
            \o ParentsHtml(Tail(parents), type)

\* html_content[group_id]
GroupHtml(group) ==
    ParentsHtml(ParentItems(group.items, min_level(group.items), <<>>), group.type)

generate_list_html(flattened) == [g \in DOMAIN flattened |-> GroupHtml(flattened[g])]

\* block = create_text_block(group['type'], html) with its document_position
ListBlock(group, html) ==
    Put(create_text_block(group.type, html, "None"),
        "document_position", group.document_position)

InsertByPosition(sorted, x) ==
    LET before == SelectSeq(sorted, LAMBDA y : y.document_position <= x.document_position)
        after == SelectSeq(sorted, LAMBDA y : y.document_position > x.document_position)
    IN before \o <<x>> \o after

\* blocks.sort(key=lambda x: x.get('document_position', 0))
RECURSIVE SortByPosition(_)
SortByPosition(bs) ==
    IF bs = <<>> THEN <<>>
    ELSE InsertByPosition(SortByPosition(SubSeq(bs, 1, Len(bs) - 1)), bs[Len(bs)])

\* steps 3 and 4 of process_docx_lists
ListBlocksOf(flattened) ==
    LET html_content == generate_list_html(flattened)
    IN SortByPosition([g \in DOMAIN flattened |-> ListBlock(flattened[g], html_content[g])])

process_docx_lists(all) ==
    ListBlocksOf(flatten_list_hierarchy(group_list_items(all)))

\* html_content = generate_list_html(flattened_lists) and the blocks made of it
BuildListBlocks ==
    /\ lpc = "flattened"
    /\ list_blocks' = ListBlocksOf(flattened_lists)
    /\ lpc' = "done"
    /\ UNCHANGED <<grouped_lists, flattened_lists, all_list_items, docxVars, classifyVars, imageVars>>
    /\ UNCHANGED publishVars

NextGroup == Group \/ Flatten \/ BuildListBlocks

SpecGroup == InitGroup /\ [][NextGroup]_vars

----------------------------------------------------------------------------
(* Claims about group_list_items *)

\* the items in source-position order, each with its num_id
Scanned == SortByIndex(FlatItems(all_list_items))

\* the number of the group that holds the item scanned at position k
GroupOfScanned(k) ==
    CHOOSE g \in DOMAIN grouped_lists :
        \E n \in DOMAIN grouped_lists[g].items :
            grouped_lists[g].items[n].text = Scanned[k].text

\* position k opens a group: it is not in the group of position k - 1
OpensGroup(k) == k > 1 /\ GroupOfScanned(k) # GroupOfScanned(k - 1)

\* the most recent position before k that holds a level-0 item, 0 when none
PrecedingRoot(k) ==
    IF \E j \in 1..(k - 1) : Scanned[j].level = 0
    THEN CHOOSE j \in 1..(k - 1) :
             /\ Scanned[j].level = 0
             /\ \A m \in (j + 1)..(k - 1) : Scanned[m].level # 0
    ELSE 0

\* C11 (as amended): group_list_items starts a new group exactly when it
\* reaches a level-0 item that directly follows a level-0 item with another
\* numbering id; a level-0 item that follows a deeper-level item stays in the
\* current group whatever its numbering id, and so does a level-0 item with
\* the numbering id of the level-0 item before it.
C11_NewGroupAtAdjacentRoots ==
    lpc # "collected" =>
        \A k \in DOMAIN Scanned :
            OpensGroup(k) <=> /\ k > 1
                              /\ Scanned[k].level = 0
                              /\ Scanned[k - 1].level = 0
                              /\ Scanned[k - 1].num_id # Scanned[k].num_id

\* a root item with a new numbering id that came back from a deeper level
\* stayed in the group
C11_Witness ==
    /\ lpc = "grouped"
    /\ \E k \in DOMAIN Scanned :
          /\ k > 1
          /\ Scanned[k].level = 0
          /\ Scanned[k - 1].level > 0
          /\ PrecedingRoot(k) # 0
          /\ Scanned[PrecedingRoot(k)].num_id # Scanned[k].num_id
          /\ ~OpensGroup(k)

\* C11 (as claimed): a new group starts exactly at a level-0 item whose
\* numbering id differs from that of the most recent earlier level-0 item,
\* whatever deeper-level items lie between them.
C11_NewGroupAtChangedRootId ==
    lpc # "collected" =>
        \A k \in DOMAIN Scanned :
            OpensGroup(k) <=> /\ Scanned[k].level = 0
                              /\ PrecedingRoot(k) # 0
                              /\ Scanned[PrecedingRoot(k)].num_id # Scanned[k].num_id

\* the positions of the level-0 items of a group
RootPositions(group) == {n \in DOMAIN group.items : group.items[n].level = 0}

\* the list block made of a group: the one at its document_position
BlockOfGroup(group) ==
    CHOOSE b \in DOMAIN list_blocks :
        list_blocks[b].document_position = group.document_position

HasToken(text, token) == \E n \in DOMAIN text : text[n] = token

\* C18: the type of each group is the type of its first level-0 item and
\* later items do not change it; items of another type stay in the group,
\* none is split off or dropped; the nested-list tag rendered for a group
\* depends only on the group type (ol for numbered-list, ul otherwise).
C18_GroupTypeFromFirstRoot ==
    /\ lpc # "collected" =>
          /\ \A g \in DOMAIN grouped_lists :
                LET group == grouped_lists[g]
                IN IF RootPositions(group) = {}
                   THEN group.type = "None"
                   ELSE \E n \in RootPositions(group) :
                           /\ \A m \in RootPositions(group) : n <= m
                           /\ group.type = group.items[n].original_type
          /\ \A k \in DOMAIN Scanned :
                /\ \E g \in DOMAIN grouped_lists : \E n \in DOMAIN grouped_lists[g].items :
                      /\ grouped_lists[g].items[n].text = Scanned[k].text
                      /\ grouped_lists[g].items[n].original_type = Scanned[k].type
                /\ (k > 1 /\ Scanned[k].num_id = Scanned[k - 1].num_id)
                      => GroupOfScanned(k) = GroupOfScanned(k - 1)
          /\ \A g \in DOMAIN grouped_lists :
                Len(grouped_lists[g].items) =
                    Cardinality({k \in DOMAIN Scanned : GroupOfScanned(k) = g})
    /\ lpc = "done" =>
          \A g \in DOMAIN grouped_lists :
              LET group == grouped_lists[g]
                  html == list_blocks[BlockOfGroup(group)].text
              IN /\ list_blocks[BlockOfGroup(group)].text_type = group.type
                 /\ HasToken(html, "ol") => group.type = "numbered-list"
                 /\ HasToken(html, "ul") => group.type # "numbered-list"

\* a numbered group holds a bullet item below its root and was rendered
C18_Witness ==
    /\ lpc = "done"
    /\ \E g \in DOMAIN grouped_lists :
          /\ grouped_lists[g].type = "numbered-list"
          /\ \E n \in DOMAIN grouped_lists[g].items :
                /\ grouped_lists[g].items[n].original_type = "bullet-list"
                /\ grouped_lists[g].items[n].level > 0
          /\ HasToken(list_blocks[BlockOfGroup(grouped_lists[g])].text, "ol")

----------------------------------------------------------------------------
(* process_docx_body: the scan over the elements of the body *)

\* A body element as the scan sees it: its tag, what its content yields
\* (text, image, table, empty, none), whether its style is a caption style,
\* what get_paragraph_list_info finds, and whether extracting its content
\* raises.
Element(tag, content, caption_style, list, level, list_type, num_id, raises) ==
    [tag |-> tag, content |-> content, caption_style |-> caption_style,
     list |-> list, level |-> level, list_type |-> list_type, num_id |-> num_id,
     raises |-> raises]

TextParagraph == Element("p", "text", FALSE, FALSE, 0, "None", "None", FALSE)
CaptionParagraph == Element("p", "text", TRUE, FALSE, 0, "None", "None", FALSE)
EmptyParagraph == Element("p", "empty", FALSE, FALSE, 0, "None", "None", FALSE)
ImageParagraph == Element("p", "image", FALSE, FALSE, 0, "None", "None", FALSE)
RaisingParagraph == Element("p", "text", FALSE, FALSE, 0, "None", "None", TRUE)
ListParagraph(level, list_type, num_id) ==
    Element("p", "text", FALSE, TRUE, level, list_type, num_id, FALSE)
TableElement == Element("tbl", "table", FALSE, FALSE, 0, "None", "None", FALSE)
DrawingElement == Element("drawing", "image", FALSE, FALSE, 0, "None", "None", FALSE)
AlternateContentElement ==
    Element("AlternateContent", "image", FALSE, FALSE, 0, "None", "None", FALSE)

BodyElements ==
    {TextParagraph, CaptionParagraph, EmptyParagraph, ImageParagraph, RaisingParagraph,
     ListParagraph(0, "bullet-list", "1"), ListParagraph(0, "numbered-list", "2"),
     TableElement, DrawingElement, AlternateContentElement}

\* extract_formatted_text(element, ...)[0]: the text of element number n
ElementText(n) == <<Letters[n]>>

\* process_docx_image: the image block of a drawing, its caption taken from
\* the drawing's description
ImageBlockOf(n) == create_image_block("a.png", <<"alt">>, "standard", "None")

\* process_docx_table: create_table_block(rows), the caption None
TableBlockOf(n) == create_table_block(<< <<ElementText(n)>> >>, <<>>)

\* process_docx_paragraph for a paragraph that is no list item: an image
\* block, a text block, or None (the empty dict here)
ParagraphBlockOf(element, n) ==
    CASE element.content = "image" -> ImageBlockOf(n)
      [] element.content = "text" -> create_text_block("paragraph", ElementText(n), "None")
      [] OTHER -> EmptyDict

\* the local variables of the scan
ScanState ==
    [blocks |-> body_blocks, origin |-> block_origin, items |-> current_list_items,
     list_type |-> current_list_type, in_list |-> in_list_context,
     prev_type |-> previous_element_type, prev_block |-> previous_block,
     pending |-> pending_caption, has_caption |-> image_has_caption,
     failed |-> failed_elements]

\* blocks.append(block); previous_element_type = ...; previous_block = block
Emit(st, block, n, element_type) ==
    [st EXCEPT !.blocks = Append(@, block),
               !.origin = Append(@, n),
               !.prev_type = element_type,
               !.prev_block = Len(st.blocks) + 1,
               !.has_caption = IF element_type = "image" THEN FALSE ELSE @]

\* all_list_items = {'current_list': current_list_items}
CurrentList(items) == << [num_id |-> "current_list", items |-> items] >>

\* `if in_list_context and current_list_items:` the collected list is turned
\* into blocks and the tracking is reset
FlushList(st) ==
    IF st.in_list /\ st.items # <<>>
    THEN LET made == process_docx_lists(CurrentList(st.items))
         IN [st EXCEPT !.blocks = @ \o made,
                       !.origin = @ \o [k \in DOMAIN made |-> made[k].document_position],
                       !.items = <<>>,
                       !.list_type = "None",
                       !.in_list = FALSE]
    ELSE st

\* except Exception as elem_err: ... continue
Failed(st, n) == [st EXCEPT !.failed = @ \cup {n}]

\* `if pending_caption:` at the start of a paragraph
PendingCaptionDone(st) ==
    IF st.pending # <<>>
    THEN LET attach == st.prev_block # 0 /\ "caption" \notin DOMAIN st.blocks[st.prev_block]
         IN [st EXCEPT !.blocks = IF attach
                                  THEN [@ EXCEPT ![st.prev_block] = Put(@, "caption", st.pending)]
                                  ELSE @,
                       !.has_caption = IF attach /\ st.prev_type = "image" THEN TRUE ELSE @,
                       !.pending = <<>>]
    ELSE st

\* previous_element_type in ['image', 'table'] and
\* (previous_element_type != 'image' or not image_has_caption)
CaptionChecked(st) ==
    /\ st.prev_type \in {"image", "table"}
    /\ (st.prev_type # "image" \/ ~st.has_caption)

is_caption_paragraph(element, prev_type) ==
    /\ element.caption_style
    /\ prev_type \in {"image", "table"}

\* the caption branch: the text becomes the previous block's caption
CaptionTaken(st, element, n) ==
    IF element.raises THEN Failed(st, n)
    ELSE IF st.prev_block # 0
    THEN [st EXCEPT !.blocks[st.prev_block] = Put(@, "caption", ElementText(n)),
                    !.has_caption = IF st.prev_type = "image" THEN TRUE ELSE @]
    ELSE [st EXCEPT !.pending = ElementText(n)]

\* the list-item branch: the item joins current_list_items
ListItemTaken(st, element, n) ==
    IF element.raises THEN Failed(st, n)
    ELSE [st EXCEPT
             !.in_list = TRUE,
             !.list_type = IF ~st.in_list
                           THEN (IF element.level = 0 THEN element.list_type ELSE "None")
                           ELSE IF element.level = 0 /\ st.list_type = "None"
                           THEN element.list_type
                           ELSE @,
             !.items = Append(@, [text |-> ElementText(n), level |-> element.level,
                                  type |-> element.list_type, element_index |-> n]),
             !.prev_type = "list",
             !.prev_block = 0]

\* the non-list branch: the collected list is flushed, then the paragraph
\* is processed
ParagraphTaken(st, element, n) ==
    LET flushed == FlushList(st)
        block == ParagraphBlockOf(element, n)
    IN IF element.raises THEN Failed(flushed, n)
       ELSE IF block = EmptyDict THEN flushed
       ELSE Emit(flushed, block, n, IF block.type = "image" THEN "image" ELSE "text")

\* `if tag == 'p':`
ParagraphElement(st0, element, n) ==
    LET st == PendingCaptionDone(st0)
    IN IF CaptionChecked(st) /\ is_caption_paragraph(element, st.prev_type)
       THEN CaptionTaken(st, element, n)
       ELSE IF element.list
       THEN ListItemTaken(st, element, n)
       ELSE ParagraphTaken(st, element, n)

\* `elif tag == 'drawing':` and the AlternateContent branch: the image block
\* is appended; the collected list stays as it is.  Only the AlternateContent
\* branch resets image_has_caption; the drawing branch leaves it as it was.
DrawingTaken(st, element, n) ==
    IF element.content = "image"
    THEN IF element.tag = "drawing"
         THEN [Emit(st, ImageBlockOf(n), n, "image") EXCEPT !.has_caption = st.has_caption]
         ELSE Emit(st, ImageBlockOf(n), n, "image")
    ELSE st

\* `elif tag == 'tbl':`
TableTaken(st, element, n) ==
    LET flushed == FlushList(st)
    IN IF element.content = "table"
       THEN Emit(flushed, TableBlockOf(n), n, "table")
       ELSE flushed

\* the body of `for element in body:`
ProcessElement(st, element, n) ==
    CASE element.tag = "AlternateContent" -> DrawingTaken(st, element, n)
      [] element.tag = "p" -> ParagraphElement(st, element, n)
      [] element.tag = "tbl" -> TableTaken(st, element, n)
      [] element.tag = "drawing" -> DrawingTaken(st, element, n)
      [] OTHER -> st

\* the scan stopped by the first failure
AfterElement_Abort(st, n) == IF n \in st.failed THEN "done" ELSE "scan"

\* where the scan goes after element n: to the next element, also when
\* processing the element raised
AfterElement(st, n) == "scan"

SetScan(st) ==
    /\ body_blocks' = st.blocks
    /\ block_origin' = st.origin
    /\ current_list_items' = st.items
    /\ current_list_type' = st.list_type
    /\ in_list_context' = st.in_list
    /\ previous_element_type' = st.prev_type
    /\ previous_block' = st.prev_block
    /\ pending_caption' = st.pending
    /\ image_has_caption' = st.has_caption
    /\ failed_elements' = st.failed

\* one iteration of `for element in body:`
ScanElement ==
    /\ dpc = "scan"
    /\ element_count < Len(body)
    /\ LET n == element_count + 1
           st == ProcessElement(ScanState, body[n], n)
       IN /\ SetScan(st)
          /\ element_count' = n
          /\ dpc' = AfterElement(st, n)
    /\ UNCHANGED <<body, listVars, all_list_items, classifyVars, imageVars>>
    /\ UNCHANGED publishVars

\* after the loop: the remaining list items are processed, blocks returned
FinishScan ==
    /\ dpc = "scan"
    /\ element_count = Len(body)
    /\ SetScan(FlushList(ScanState))
    /\ dpc' = "done"
    /\ UNCHANGED <<body, element_count, listVars, all_list_items, classifyVars, imageVars>>
    /\ UNCHANGED publishVars

InitBody ==
    /\ PublishIdle
    /\ ListIdle
    /\ all_list_items = <<>>
    /\ ClassifyIdle
    /\ ImageIdle
    /\ body \in SeqsUpTo(BodyElements, MaxElements)
    /\ element_count = 0
    /\ body_blocks = <<>>
    /\ block_origin = <<>>
    /\ current_list_items = <<>>
    /\ current_list_type = "None"
    /\ in_list_context = FALSE
    /\ previous_element_type = "None"
    /\ previous_block = 0
    /\ pending_caption = <<>>
    /\ image_has_caption = FALSE
    /\ failed_elements = {}
    /\ dpc = "scan"

NextBody == ScanElement \/ FinishScan

SpecBody == InitBody /\ [][NextBody]_vars

----------------------------------------------------------------------------
(* Claims about process_docx_body *)

MaxOf(S) == IF S = {} THEN 0 ELSE CHOOSE x \in S : \A y \in S : y <= x

\* What the document held last before the element at hand, by source
\* position: a pending list item, or the emitted block of the latest origin.
LatestContent ==
    LET pending == MaxOf({current_list_items[k].element_index :
                              k \in DOMAIN current_list_items})
        emitted == MaxOf({block_origin[k] : k \in DOMAIN block_origin})
    IN IF pending = 0 /\ emitted = 0 THEN "none"
       ELSE IF pending > emitted THEN "list"
       ELSE body_blocks[CHOOSE k \in DOMAIN block_origin : block_origin[k] = emitted].type

C13_BlocksInDocumentOrder ==
    dpc = "done" =>
        \A k \in 1..(Len(block_origin) - 1) : block_origin[k] <= block_origin[k + 1]

IsPrefix(short, long) ==
    /\ Len(short) <= Len(long)
    /\ \A k \in DOMAIN short : long[k] = short[k]

\* the text of an element is part of an emitted text block
Rendered(bs, n) ==
    \E k \in DOMAIN bs :
        /\ bs[k].type = "text"
        /\ HasToken(bs[k].text, Letters[n])

\* C16: when processing an element raises, the scan goes on: the blocks
\* emitted so far are kept, the later elements are processed, and the list
\* items pending at the failure are still emitted as a list block.
C16_ScanSurvivesFailure ==
    [][/\ (dpc = "scan" /\ element_count < Len(body) /\ body[element_count + 1].raises)
          => /\ dpc' = "scan"
             /\ element_count' = element_count + 1
             /\ IsPrefix(body_blocks, body_blocks')
             /\ \A k \in DOMAIN current_list_items :
                   \/ \E j \in DOMAIN current_list_items' :
                         current_list_items'[j] = current_list_items[k]
                   \/ Rendered(body_blocks', current_list_items[k].element_index)
       /\ dpc' = "done"
          => /\ element_count' = Len(body)
             /\ current_list_items' = <<>>
             /\ \A n \in DOMAIN body :
                   (body[n] = TextParagraph \/ body[n].list) => Rendered(body_blocks', n)]_vars

\* a list item was pending when an element failed, and the paragraph after
\* the failure was emitted
C16_Witness ==
    /\ dpc = "done"
    /\ \E n \in failed_elements :
          /\ n > 1
          /\ body[n - 1].list
          /\ n < Len(body)
          /\ body[n + 1] = TextParagraph
          /\ Rendered(body_blocks, n - 1)
          /\ Rendered(body_blocks, n + 1)

\* C19: two adjacent level-0 list paragraphs with different numbering ids end
\* up in different groups and are emitted as two separate list text blocks.
C19_AdjacentRootsSplitByNumId ==
    dpc = "done" =>
        \A n \in 1..(Len(body) - 1) :
            (/\ body[n].list /\ body[n + 1].list
             /\ body[n].level = 0 /\ body[n + 1].level = 0
             /\ body[n].num_id # body[n + 1].num_id)
            => \A k \in DOMAIN body_blocks :
                  body_blocks[k].type = "text"
                      => ~(/\ HasToken(body_blocks[k].text, Letters[n])
                           /\ HasToken(body_blocks[k].text, Letters[n + 1]))

-----------------------------------------------------------------------------
(* detect_code_language: a snippet is a sequence of fragments separated by   *)
(* single blanks; what each pattern finds in a fragment is tabulated from    *)
(* the regular expressions of the check_* functions.                         *)

MaxFragments == 2

Fragments ==
    {" ", "#", "=>", "[1]", "<p>", "x as T", "self", "$feature", "def f():",
     "return null", "hello world", "python syntax", "SELECT a FROM t",
     "Console.WriteLine", ".a { color: red; }", "SUMMARY", "Done.", "console.log",
     "The quick brown fox jumps over the lazy dog near a river bank"}

\* len() of a fragment
FragmentLen(f) ==
    CASE f \in {" ", "#"} -> 1
      [] f = "=>" -> 2
      [] f \in {"[1]", "<p>"} -> 3
      [] f = "self" -> 4
      [] f = "x as T" -> 6
      [] f \in {"$feature", "def f():"} -> 8
      [] f \in {"return null", "hello world", "console.log"} -> 11
      [] f = "python syntax" -> 13
      [] f = "SELECT a FROM t" -> 15
      [] f = "Console.WriteLine" -> 17
      [] f = ".a { color: red; }" -> 18
      [] f = "SUMMARY" -> 7
      [] f = "Done." -> 5
      [] f = "The quick brown fox jumps over the lazy dog near a river bank" -> 61

\* code_content.strip(): blank fragments at both ends are dropped
RECURSIVE Strip(_)
Strip(s) ==
    IF s = <<>> THEN s
    ELSE IF Head(s) = " " THEN Strip(Tail(s))
    ELSE IF s[Len(s)] = " " THEN Strip(SubSeq(s, 1, Len(s) - 1))
    ELSE s

\* len() of a snippet: its fragments and the blanks between them
RECURSIVE SnippetLen(_)
SnippetLen(s) ==
    IF s = <<>> THEN 0
    ELSE FragmentLen(Head(s)) + (IF Len(s) > 1 THEN 1 ELSE 0) + SnippetLen(Tail(s))

\* re.search finds one of a check's patterns in the snippet
Finds(s, marked) == \E k \in DOMAIN s : s[k] \in marked

check_sql(s) == IF Finds(s, {"SELECT a FROM t"}) THEN "sql" ELSE "None"

check_arcade(s) == IF Finds(s, {"$feature"}) THEN "arcade" ELSE "None"

\* the whole snippet is one JSON value in brackets
check_json(s) == IF s = <<"[1]">> THEN "json" ELSE "None"

check_python(s) == IF Finds(s, {"def f():", "#"}) THEN "py" ELSE "None"

check_csharp(s) == IF Finds(s, {"Console.WriteLine"}) THEN "cs" ELSE "None"

\* the fragments matched by a pattern of js_patterns and of ts_patterns, one
\* pattern each
JsMarkers == {"=>", "console.log"}

TsMarkers == {"x as T"}

\* the script check with ts returned only when the TypeScript patterns
\* outnumber the JavaScript patterns
check_javascript_typescript_TsDominant(s) ==
    LET js_matches == Cardinality({f \in JsMarkers : Finds(s, {f})})
        ts_matches == Cardinality({f \in TsMarkers : Finds(s, {f})})
        has_html == Finds(s, {"<p>"})
    IN IF js_matches >= 1 \/ ts_matches >= 1
       THEN IF has_html
            THEN (IF ts_matches >= 1 THEN "tsx" ELSE "jsx")
            ELSE IF ts_matches > js_matches THEN "ts" ELSE "js"
       ELSE "None"

check_javascript_typescript(s) ==
    LET js_matches == Cardinality({f \in JsMarkers : Finds(s, {f})})
        ts_matches == Cardinality({f \in TsMarkers : Finds(s, {f})})
        has_html == Finds(s, {"<p>"})
    IN IF js_matches >= 1 \/ ts_matches >= 1
       THEN IF has_html
            THEN (IF ts_matches >= 1 THEN "tsx" ELSE "jsx")
            ELSE IF ts_matches >= 1 THEN "ts" ELSE "js"
       ELSE "None"

\* the fragment in braces matches three of the CSS patterns
check_css(s) ==
    LET matches == IF Finds(s, {".a { color: red; }"}) THEN 3 ELSE 0
    IN IF Finds(s, {".a { color: red; }"})
          /\ (matches >= 2 \/ (matches >= 1 /\ SnippetLen(s) < 100))
       THEN "css" ELSE "None"

\* <p> is one of the strong single patterns
check_html(s) == IF Finds(s, {"<p>"}) THEN "html" ELSE "None"

\* keyword_sets, in the order of the dict
KeywordLanguages == <<"py", "js", "sql", "cs", "html", "css", "arcade">>

\* the words of a fragment found in a language's keyword list
KeywordHits(f, lang) ==
    CASE f = "self" /\ lang = "py" -> 1
      [] f = "def f():" /\ lang = "py" -> 1
      [] f = "return null" /\ lang = "js" -> 2
      [] f = "SELECT a FROM t" /\ lang = "sql" -> 2
      [] f = ".a { color: red; }" /\ lang = "css" -> 1
      [] f = "$feature" /\ lang = "arcade" -> 1
      [] OTHER -> 0

RECURSIVE KeywordScore(_, _)
KeywordScore(s, lang) ==
    IF s = <<>> THEN 0 ELSE KeywordHits(Head(s), lang) + KeywordScore(Tail(s), lang)

\* max(language_scores.items(), key=score): the first language of the dict
\* with the highest score, taken when the score is at least 2
check_keywords(s) ==
    LET scored == {k \in DOMAIN KeywordLanguages : KeywordScore(s, KeywordLanguages[k]) > 0}
        best == CHOOSE k \in scored :
                    \A j \in scored :
                        \/ KeywordScore(s, KeywordLanguages[j]) < KeywordScore(s, KeywordLanguages[k])
                        \/ (KeywordScore(s, KeywordLanguages[j]) = KeywordScore(s, KeywordLanguages[k]) /\ k <= j)
    IN IF scored # {} /\ KeywordScore(s, KeywordLanguages[best]) >= 2
       THEN KeywordLanguages[best] ELSE "None"

\* 'syntax' is in the text and it names python
check_text_about_code(s) == IF Finds(s, {"python syntax"}) THEN "py" ELSE "None"

\* the checks with the HTML check ahead of the script check
LanguageChecks_HtmlFirst(s) ==
    <<check_sql(s), check_arcade(s), check_json(s), check_python(s), check_csharp(s),
      check_html(s), check_css(s), check_javascript_typescript(s), check_keywords(s),
      check_text_about_code(s)>>

\* the checks in the order detect_code_language calls them
LanguageChecks(s) ==
    <<check_sql(s), check_arcade(s), check_json(s), check_python(s), check_csharp(s),
      check_javascript_typescript(s), check_css(s), check_html(s), check_keywords(s),
      check_text_about_code(s)>>

\* the guard of the early return
TooShort(snippet) == snippet = <<>> \/ SnippetLen(Strip(snippet)) < 3

detect_code_language(snippet) ==
    LET checks == LanguageChecks(Strip(snippet))
        matching == {k \in DOMAIN checks : checks[k] # "None"}
    IN IF TooShort(snippet) THEN "txt"
       ELSE IF matching = {} THEN "txt"
       ELSE checks[CHOOSE k \in matching : \A j \in matching : k <= j]

InitDetect ==
    /\ PublishIdle
    /\ ListIdle
    /\ all_list_items = <<>>
    /\ DocxIdle
    /\ ImageIdle
    /\ paragraph = EmptyDict
    /\ paragraph_block = EmptyDict
    /\ code \in SeqsUpTo(Fragments, MaxFragments)
    /\ detected = "None"
    /\ cpc = "detect"

Detect ==
    /\ cpc = "detect"
    /\ detected' = detect_code_language(code)
    /\ cpc' = "done"
    /\ UNCHANGED <<paragraph, paragraph_block, code>>
    /\ UNCHANGED <<publishVars, listVars, all_list_items, docxVars, imageVars>>

NextDetect == Detect

SpecDetect == InitDetect /\ [][NextDetect]_vars

-----------------------------------------------------------------------------
(* C15 *)

\* the tags of the checks in the order SQL, Arcade, JSON, Python, C#,
\* JavaScript/TypeScript, CSS, HTML, keyword scoring, text about code
TagsInOrder ==
    LET s == Strip(code)
    IN <<check_sql(s), check_arcade(s), check_json(s), check_python(s), check_csharp(s),
         check_javascript_typescript(s), check_css(s), check_html(s),
         IF \E k \in DOMAIN KeywordLanguages : KeywordScore(s, KeywordLanguages[k]) >= 2
         THEN check_keywords(s) ELSE "None",
         check_text_about_code(s)>>

FirstTag ==
    LET matching == {k \in DOMAIN TagsInOrder : TagsInOrder[k] # "None"}
    IN IF matching = {} THEN "txt"
       ELSE TagsInOrder[CHOOSE k \in matching : \A j \in matching : k <= j]

\* C15 (as stated): the tag is that of the first matching check in the order
\* SQL, Arcade, JSON, Python, C#, JavaScript/TypeScript, CSS, HTML, keyword
\* scoring with at least 2 hits, text about code; it is txt exactly when no
\* check matches; a snippet matching the SQL check is tagged sql.
C15_FirstMatchingCheck ==
    cpc = "done" =>
        /\ detected = FirstTag
        /\ (detected = "txt" <=> \A k \in DOMAIN TagsInOrder : TagsInOrder[k] = "None")
        /\ (check_sql(Strip(code)) # "None" => detected = "sql")

\* C15 (amended): a snippet that is empty or shorter than 3 characters after
\* trimming is tagged txt whatever it matches; every other snippet gets the
\* tag of the first matching check in the stated order, and txt exactly when
\* no check matches; a snippet matching the SQL check is tagged sql.
C15_FirstMatchingCheckUnlessShort ==
    cpc = "done" =>
        LET short == code = <<>> \/ SnippetLen(Strip(code)) < 3
        IN /\ short => detected = "txt"
           /\ ~short => detected = FirstTag
           /\ (detected = "txt" <=>
                  (short \/ \A k \in DOMAIN TagsInOrder : TagsInOrder[k] = "None"))
           /\ (check_sql(Strip(code)) # "None" => detected = "sql")

\* a snippet of two fragments, one a script marker and one an HTML tag, is
\* tagged by the script check, which comes first
C15_Witness ==
    /\ cpc = "done"
    /\ check_javascript_typescript(Strip(code)) # "None"
    /\ check_html(Strip(code)) # "None"
    /\ SnippetLen(Strip(code)) >= 3
    /\ detected = "jsx"

-----------------------------------------------------------------------------
(* process_docx_paragraph: a paragraph is the record of what the function    *)
(* reads from the element: the drawing, the extracted text and alignment,    *)
(* the outline level (-1 when get_paragraph_outline_level returns None), the *)
(* style id, the runs with their bold flag and size in half-points (-1 when  *)
(* the run has no size) and the spacing element.                             *)

Run(bold, sz) == [bold |-> bold, sz |-> sz]

RunSamples ==
    {<<>>, <<Run(FALSE, -1)>>, <<Run(TRUE, -1)>>, <<Run(TRUE, 24)>>, <<Run(FALSE, 28)>>,
     <<Run(TRUE, 32)>>, <<Run(FALSE, 40)>>, <<Run(TRUE, 40), Run(FALSE, 24)>>,
     <<Run(TRUE, 28), Run(TRUE, -1)>>}

Styles ==
    {"None", "Normal", "Heading1", "Heading2", "Heading3", "Heading4", "Title",
     "Quote", "SourceCode"}

ParagraphTexts ==
    {<<>>, <<" ">>, <<"SUMMARY">>, <<"Done.">>, <<"hello world">>, <<"def f():">>,
     <<"The quick brown fox jumps over the lazy dog near a river bank">>}

ParagraphSamples ==
    [drawing : {FALSE}, text : ParagraphTexts, alignment : {"None", "center"},
     outline_level : -1..3, style : Styles, runs : RunSamples, spacing : BOOLEAN]
    \cup
    [drawing : {TRUE}, text : {<<>>}, alignment : {"None"}, outline_level : {-1},
     style : {"None", "Heading1"}, runs : {<<>>}, spacing : {FALSE}]

\* int(re.findall(r'\d+', style_id)[0]), -1 when the style id has no digits
FirstDigits(style) ==
    CASE style = "Heading1" -> 1
      [] style = "Heading2" -> 2
      [] style = "Heading3" -> 3
      [] style = "Heading4" -> 4
      [] OTHER -> -1

\* keyword in style.lower()
StyleHas(style, keyword) ==
    \/ keyword = "heading" /\ style \in {"Heading1", "Heading2", "Heading3", "Heading4"}
    \/ keyword = "title" /\ style = "Title"
    \/ keyword = "quote" /\ style = "Quote"
    \/ keyword \in {"code", "source"} /\ style = "SourceCode"

\* str.isupper(): some fragment has cased characters and all of them are
\* upper case
IsUpper(s) ==
    /\ \E k \in DOMAIN s : s[k] = "SUMMARY"
    /\ \A k \in DOMAIN s : s[k] \in {"SUMMARY", " ", "#", "=>", "[1]"}

\* re.search(r'[.!?]$', text.strip())
EndsWithPunctuation(s) == s # <<>> /\ s[Len(s)] = "Done."

check_is_bold(p) ==
    IF p.runs = <<>> THEN FALSE
    ELSE 2 * Cardinality({k \in DOMAIN p.runs : p.runs[k].bold}) > Len(p.runs)

\* the size in points when all sized runs agree, 0 for None; the sampled
\* half-point sizes are even
get_font_size(p) ==
    LET sizes == {p.runs[k].sz \div 2 : k \in {j \in DOMAIN p.runs : p.runs[j].sz # -1}}
    IN IF Cardinality(sizes) = 1 THEN CHOOSE size \in sizes : TRUE ELSE 0

check_heading_formatting(p) ==
    \/ check_is_bold(p)
    \/ (get_font_size(p) # 0 /\ get_font_size(p) >= 14)
    \/ p.spacing

\* `if outline_level is not None:` the empty dict when the rule does not
\* return
OutlineRule(p) ==
    CASE p.outline_level = 0 -> create_text_block("h2", p.text, p.alignment)
      [] p.outline_level = 1 -> create_text_block("h3", p.text, p.alignment)
      [] p.outline_level = 2 -> create_text_block("h4", p.text, p.alignment)
      [] OTHER -> EmptyDict

\* `if style_id:` ... `if digits:`
StyleDigitRule(p) ==
    CASE p.style # "None" /\ FirstDigits(p.style) = 1 -> create_text_block("h2", p.text, p.alignment)
      [] p.style # "None" /\ FirstDigits(p.style) = 2 -> create_text_block("h3", p.text, p.alignment)
      [] p.style # "None" /\ FirstDigits(p.style) = 3 -> create_text_block("h4", p.text, p.alignment)
      [] OTHER -> EmptyDict

\* `if is_heading:` ... `if font_size:`
FormattingRule(p) ==
    LET font_size == get_font_size(p)
    IN IF check_heading_formatting(p) /\ font_size # 0
       THEN CASE font_size >= 20 -> create_text_block("h2", p.text, p.alignment)
              [] font_size < 20 /\ font_size >= 16 -> create_text_block("h3", p.text, p.alignment)
              [] font_size < 16 /\ font_size >= 14 -> create_text_block("h4", p.text, p.alignment)
              [] OTHER -> EmptyDict
       ELSE EmptyDict

\* `if style:` the keywords of headings, quotes and code
StyleKeywordRule(p) ==
    IF p.style = "None" THEN EmptyDict
    ELSE IF StyleHas(p.style, "title") \/ StyleHas(p.style, "heading") \/ StyleHas(p.style, "nadpis")
    THEN create_text_block("h2", p.text, p.alignment)
    ELSE IF StyleHas(p.style, "quote") \/ StyleHas(p.style, "citation")
    THEN create_text_block("quote", p.text, p.alignment)
    ELSE IF StyleHas(p.style, "code") \/ StyleHas(p.style, "source")
    THEN create_code_block(p.text, detect_code_language(p.text))
    ELSE EmptyDict

\* `if len(text.strip()) < 50:`
ContentRule(p) ==
    IF SnippetLen(Strip(p.text)) < 50
    THEN IF IsUpper(Strip(p.text))
         THEN create_text_block("h2", p.text, p.alignment)
         ELSE IF ~EndsWithPunctuation(Strip(p.text)) /\ check_is_bold(p)
         THEN create_text_block("h3", p.text, p.alignment)
         ELSE EmptyDict
    ELSE EmptyDict

\* the rules with the style keywords ahead of the formatting
ParagraphRules_KeywordsFirst(p) ==
    <<OutlineRule(p), StyleDigitRule(p), StyleKeywordRule(p), FormattingRule(p),
      ContentRule(p)>>

\* the rules in the order process_docx_paragraph tries them
ParagraphRules(p) ==
    <<OutlineRule(p), StyleDigitRule(p), FormattingRule(p), StyleKeywordRule(p),
      ContentRule(p)>>

process_docx_paragraph(p) ==
    LET rules == ParagraphRules(p)
        returning == {k \in DOMAIN rules : rules[k] # EmptyDict}
    IN IF p.drawing THEN ImageBlockOf(1)
       ELSE IF p.text = <<>> \/ IsBlank(p.text)
       THEN (IF Truthy(p.alignment)
             THEN create_text_block("paragraph", <<>>, p.alignment)
             ELSE EmptyDict)
       ELSE IF returning # {}
       THEN rules[CHOOSE k \in returning : \A j \in returning : k <= j]
       ELSE create_text_block("paragraph", p.text, p.alignment)

InitParagraph ==
    /\ PublishIdle
    /\ ListIdle
    /\ all_list_items = <<>>
    /\ DocxIdle
    /\ ImageIdle
    /\ paragraph \in ParagraphSamples
    /\ paragraph_block = EmptyDict
    /\ code = EmptyDict
    /\ detected = "None"
    /\ cpc = "classify"

Classify ==
    /\ cpc = "classify"
    /\ paragraph_block' = process_docx_paragraph(paragraph)
    /\ cpc' = "done"
    /\ UNCHANGED <<paragraph, code, detected>>
    /\ UNCHANGED <<publishVars, listVars, all_list_items, docxVars, imageVars>>

NextParagraph == Classify

SpecParagraph == InitParagraph /\ [][NextParagraph]_vars

-----------------------------------------------------------------------------
(* C14 *)

\* the paragraph has text and no drawing, and was classified
Classified ==
    /\ cpc = "done"
    /\ ~paragraph.drawing
    /\ ~(paragraph.text = <<>> \/ IsBlank(paragraph.text))

\* the result of the first rule of the sequence that returns, the default
\* paragraph when none does
FirstOf(rules) ==
    LET returning == {k \in DOMAIN rules : rules[k] # EmptyDict}
    IN IF returning = {}
       THEN create_text_block("paragraph", paragraph.text, paragraph.alignment)
       ELSE rules[CHOOSE k \in returning : \A j \in returning : k <= j]

\* the size rule of the formatting heuristic applies: heading-like formatting
\* and one font size of at least 14pt
SizedLikeHeading ==
    /\ check_is_bold(paragraph) \/ paragraph.spacing \/ get_font_size(paragraph) >= 14
    /\ get_font_size(paragraph) >= 14

\* C14 (as stated): the first matching rule wins in the order outline level,
\* style digit, style-name keyword, formatting/content heuristic, default; a
\* paragraph matched by the keyword rule and by no earlier rule is classified
\* by it whatever its bold, font-size or spacing formatting.
C14_KeywordBeforeFormatting ==
    Classified =>
        /\ paragraph_block =
              FirstOf(<<OutlineRule(paragraph), StyleDigitRule(paragraph),
                        StyleKeywordRule(paragraph), FormattingRule(paragraph),
                        ContentRule(paragraph)>>)
        /\ (/\ paragraph.outline_level \notin 0..2
            /\ FirstDigits(paragraph.style) \notin 1..3
            /\ StyleKeywordRule(paragraph) # EmptyDict)
           => paragraph_block = StyleKeywordRule(paragraph)

\* C14 (amended): the first matching rule wins in the order outline level,
\* style digit, font size of a heading-like formatted paragraph, style-name
\* keyword, content heuristic, default; a paragraph matched by the keyword
\* rule and by no earlier rule is classified by it whatever its bold or
\* spacing formatting, provided the font-size rule does not apply.
C14_FormattingBeforeKeyword ==
    Classified =>
        /\ paragraph_block =
              FirstOf(<<OutlineRule(paragraph), StyleDigitRule(paragraph),
                        FormattingRule(paragraph), StyleKeywordRule(paragraph),
                        ContentRule(paragraph)>>)
        /\ (/\ paragraph.outline_level \notin 0..2
            /\ FirstDigits(paragraph.style) \notin 1..3
            /\ ~SizedLikeHeading)
           => /\ paragraph.style \in {"Title", "Heading4"}
                 => paragraph_block.type = "text" /\ paragraph_block.text_type = "h2"
              /\ paragraph.style = "Quote"
                 => paragraph_block.type = "text" /\ paragraph_block.text_type = "quote"
              /\ paragraph.style = "SourceCode" => paragraph_block.type = "code"
        /\ (/\ paragraph.outline_level \notin 0..2
            /\ FirstDigits(paragraph.style) \notin 1..3
            /\ SizedLikeHeading)
           => paragraph_block.type = "text" /\ paragraph_block.text_type \in {"h2", "h3", "h4"}

\* a bold paragraph with spacing and the Quote style, no size rule applying,
\* became a quote
C14_Witness ==
    /\ Classified
    /\ paragraph.style = "Quote"
    /\ paragraph.outline_level = -1
    /\ check_is_bold(paragraph)
    /\ paragraph.spacing
    /\ ~SizedLikeHeading
    /\ paragraph_block.text_type = "quote"

-----------------------------------------------------------------------------
(* update_storymap_content on a document whose text nodes all hold their     *)
(* placeholder: the function is given the document and the placeholder map,  *)
(* whatever the blocks of the map contain.                                   *)

\* the document with a placeholder node for each block, and the map of its
\* node ids to the blocks
RECURSIVE PlaceholderDocument(_, _, _, _)
PlaceholderDocument(blocks, n, s, map) ==
    IF n = Len(blocks)
    THEN [main_data |-> s, parsed_blocks |-> map]
    ELSE PlaceholderDocument(blocks, n + 1,
                             StoryAdd(s, PlaceholderNode(blocks[n + 1], n, s)),
                             Put(map, NextNodeId(s), PlaceholderEntry(blocks[n + 1])))

InitContent ==
    /\ ParserIdle
    /\ pc = "content"
    /\ content_blocks \in SeqsUpTo({b \in BlockSamples : b.type \in {"text", "code"}}, MaxBlocks)
    /\ description = ""
    /\ cover_image = "None"
    /\ i = Len(content_blocks)
    /\ story = PlaceholderDocument(content_blocks, 0, NewStory, EmptyDict).main_data
    /\ placeholder_ids = EmptyDict
    /\ parsed_blocks = PlaceholderDocument(content_blocks, 0, NewStory, EmptyDict).parsed_blocks
    /\ image_dimensions = EmptyDict
    /\ remote_listing = <<>>
    /\ remote_files = EmptyDict
    /\ remote_canonical = story
    /\ remote_log = <<>>
    /\ main_data = story
    /\ main_source = "canonical"
    /\ replacements = 0
    /\ result = "pending"
    /\ response = "none"

NextContent == ContentStep

SpecContent == InitContent /\ [][NextContent]_vars

-----------------------------------------------------------------------------
(* C20 *)

\* the text nodes of the document that still hold their placeholder although
\* the map has a text block for them
Unpatched(data) ==
    {node_id \in DOMAIN data.nodes.byId :
        LET node == data.nodes.byId[node_id]
        IN /\ node.type = "text"
           /\ StartsWithPlaceholderText(node.data.text)
           /\ node_id \in DOMAIN parsed_blocks
           /\ parsed_blocks[node_id].type = "text"}

-----------------------------------------------------------------------------
(* C17 *)

\* a step of update_storymap_json before save_storymap_updates is reached
BeforeCanonicalWrite == pc \in {"get", "content", "dims"}

\* C17: update_storymap_json returns success only if the canonical item data
\* was replaced and, when a draft resource exists, the draft upload
\* succeeded; when the fetched document has no nodes mapping or a step
\* before the canonical write raises, it returns failure and has issued no
\* remote write: the remote item is as story.save left it.
C17_FailureBeforeWriteLeavesRemote ==
    [][ /\ (result' = "True" /\ result # "True") =>
               /\ UpdateLogged(remote_log')
               /\ remote_canonical' = main_data'
               /\ (\E k \in 1..Len(remote_listing') : IsDraftEntry(remote_listing'[k])) =>
                      /\ response' = "success"
                      /\ UploadLogged(remote_log')
        /\ BeforeCanonicalWrite =>
               /\ UNCHANGED <<remote_listing, remote_files, remote_canonical, remote_log>>
               /\ remote_log[Len(remote_log)].call = "story.save"
        /\ (BeforeCanonicalWrite /\ pc' = "done") =>
               /\ result' = "False"
               /\ ~UpdateLogged(remote_log')
               /\ ~UploadLogged(remote_log')
        /\ (pc = "get" /\ pc' = "content") => "nodes" \in DOMAIN main_data' ]_vars

\* the download of the draft raised: the run ended with failure and the item
\* holds what story.save wrote
C17_Witness ==
    /\ pc = "done"
    /\ result = "False"
    /\ \E k \in 1..Len(remote_listing) :
          /\ IsDraftEntry(remote_listing[k])
          /\ remote_files[remote_listing[k].resource].kind = "error"
    /\ remote_canonical = story
    /\ DOMAIN parsed_blocks # {}
    /\ ~UpdateLogged(remote_log)

-----------------------------------------------------------------------------
(* C23 *)

\* the snippet was handed to the script check: it is long enough and no
\* earlier check returned a tag
ScriptCheckReached ==
    /\ cpc = "done"
    /\ ~TooShort(code)
    /\ \A k \in 1..5 : LanguageChecks(Strip(code))[k] = "None"

JsCount == Cardinality({f \in JsMarkers : Finds(Strip(code), {f})})

TsCount == Cardinality({f \in TsMarkers : Finds(Strip(code), {f})})

\* C23 (as stated): no language when both counts are zero; otherwise tsx
\* with TS markers and HTML-like tags, jsx with HTML-like tags and JS markers
\* only, ts only if the TS markers outnumber the JS markers, js otherwise.
C23_TsOnlyWhenDominant ==
    ScriptCheckReached =>
        LET tag == check_javascript_typescript(Strip(code))
        IN /\ (JsCount = 0 /\ TsCount = 0) => tag = "None"
           /\ (JsCount > 0 \/ TsCount > 0) =>
                 /\ detected = tag
                 /\ tag = IF Finds(Strip(code), {"<p>"})
                          THEN (IF TsCount > 0 THEN "tsx" ELSE "jsx")
                          ELSE IF TsCount > JsCount THEN "ts" ELSE "js"

\* C23 (amended): no language when both counts are zero; otherwise tsx with
\* TS markers and HTML-like tags, jsx with HTML-like tags and JS markers
\* only, ts whenever at least one TS marker is present, js otherwise.
C23_TsWheneverTsMarker ==
    ScriptCheckReached =>
        LET tag == check_javascript_typescript(Strip(code))
        IN /\ (JsCount = 0 /\ TsCount = 0) => tag = "None"
           /\ (JsCount > 0 \/ TsCount > 0) =>
                 /\ detected = tag
                 /\ tag = IF Finds(Strip(code), {"<p>"})
                          THEN (IF TsCount > 0 THEN "tsx" ELSE "jsx")
                          ELSE IF TsCount > 0 THEN "ts" ELSE "js"

\* a snippet with as many JS markers as TS markers and no tag was tagged ts
C23_Witness ==
    /\ ScriptCheckReached
    /\ JsCount >= 1
    /\ TsCount = JsCount
    /\ ~Finds(Strip(code), {"<p>"})
    /\ detected = "ts"

-----------------------------------------------------------------------------
(* C26 *)

\* the tags detect_code_language returns
DetectorTags ==
    {"sql", "arcade", "json", "py", "cs", "js", "ts", "jsx", "tsx", "css", "html", "txt"}

\* C26: after Phase 2 the code node of every Code block carries the tag the
\* detector chose for the block as its language.
C26_DetectedTagSurvives ==
    ContentDone =>
        \A node_id \in DOMAIN parsed_blocks :
            (/\ parsed_blocks[node_id].type = "code"
             /\ parsed_blocks[node_id].language \in DetectorTags
             /\ node_id \in DOMAIN main_data.nodes.byId)
            => /\ main_data.nodes.byId[node_id].type = "code"
               /\ main_data.nodes.byId[node_id].data.lang = parsed_blocks[node_id].language

-----------------------------------------------------------------------------
(* C30 *)

\* C30: main reports "StoryMap created successfully" and returns the item
\* only if update_storymap_json reported success.
C30_SuccessOnlyAfterPhase2Success ==
    pc = "created_successfully" => result = "True"

-----------------------------------------------------------------------------
(* C28 *)

\* the Text entries of the Placeholder Map, the description's entry left out
\* when asked
TextEntries(with_description) ==
    {node_id \in DOMAIN parsed_blocks :
        /\ parsed_blocks[node_id].type = "text"
        /\ with_description
           \/ DescriptionKey \notin DOMAIN placeholder_ids
           \/ placeholder_ids[DescriptionKey] # node_id}

\* Phase 2 deleted no node and substituted no single space: the walk ended
\* without a failure, the document has the nodes it had, and every
\* placeholder of a Text entry was replaced by the entry's own text
NothingDeletedOrBlanked ==
    /\ pc' = "dims"
    /\ main_data'.nodes.order = main_data.nodes.order
    /\ DOMAIN main_data'.nodes.byId = DOMAIN main_data.nodes.byId
    /\ \A node_id \in TextEntries(TRUE) :
          (/\ node_id \in DOMAIN main_data.nodes.byId
           /\ StartsWithPlaceholderText(main_data.nodes.byId[node_id].data.text))
          => /\ main_data'.nodes.byId[node_id].data.text = parsed_blocks[node_id].text
             /\ main_data'.nodes.byId[node_id].data.text # <<" ">>

\* C28 (as stated): every Text entry of a map built by Phase 1 has non-blank
\* content different from "..."; hence Phase 2 deletes no node, substitutes
\* no single space and leaves the number of nodes as it was.
C28_AllTextEntriesUsable ==
    [][pc = "content" =>
          /\ \A node_id \in TextEntries(TRUE) : ~IsEmptyContent(parsed_blocks[node_id].text)
          /\ NothingDeletedOrBlanked]_vars

\* C28 (amended): every Text entry made for a content block has non-blank
\* content different from "..." (the description's entry holds the
\* description as given); Phase 2 deletes no node, substitutes no single
\* space and leaves the number of nodes as it was.
C28_BlockTextEntriesUsable ==
    [][pc = "content" =>
          /\ \A node_id \in TextEntries(FALSE) : ~IsEmptyContent(parsed_blocks[node_id].text)
          /\ NothingDeletedOrBlanked]_vars

\* a run with a blank description and a text block: the text block's
\* placeholder was replaced and the document kept its nodes
C28_Witness ==
    /\ pc = "dims"
    /\ description = " "
    /\ replacements >= 1
    /\ TextEntries(FALSE) # {}
    /\ TextEntries(FALSE) # TextEntries(TRUE)
    /\ main_data.nodes.order = story.nodes.order

-----------------------------------------------------------------------------
(* C29 *)

\* resource_id is the image of an image node of the Placeholder Map
ReferencedByMap(data, blocks, resource_id) ==
    \E node_id \in DOMAIN data.nodes.byId \cap DOMAIN blocks :
        LET node == data.nodes.byId[node_id]
        IN /\ node.type = "image"
           /\ "data" \in DOMAIN node
           /\ "image" \in DOMAIN node.data
           /\ node.data.image = resource_id

\* what a step of update_storymap_content or update_image_dimensions keeps
Phase2FrameKept ==
    /\ parsed_blocks' = parsed_blocks
    /\ \A node_id \in DOMAIN main_data.nodes.byId \ DOMAIN parsed_blocks :
          /\ node_id \in DOMAIN main_data'.nodes.byId
          /\ main_data'.nodes.byId[node_id] = main_data.nodes.byId[node_id]
    /\ "resources" \in DOMAIN main_data =>
          \A resource_id \in DOMAIN main_data.resources :
              ~ReferencedByMap(main_data, parsed_blocks, resource_id) =>
                  /\ resource_id \in DOMAIN main_data'.resources
                  /\ main_data'.resources[resource_id] =
                         main_data.resources[resource_id]

\* C29: update_storymap_content and update_image_dimensions leave unchanged
\* every node whose node_id is not in the Placeholder Map and every resource
\* that no image node of the Placeholder Map references, and they never
\* modify the Placeholder Map.
C29_Phase2Frame ==
    [][(pc \in {"content", "dims"}) => Phase2FrameKept]_vars

\* Phase 2 has written the dimensions of a mapped image into its resource
\* and has patched a mapped node, while the cover's resource, which only the
\* unmapped cover node references, still has the dimensions it was fetched with
C29_Witness ==
    /\ pc = "save_main"
    /\ replacements > 0
    /\ "cover_image" \in DOMAIN image_dimensions
    /\ "resources" \in DOMAIN main_data
    /\ \E resource_id \in DOMAIN main_data.resources :
          /\ ReferencedByMap(main_data, parsed_blocks, resource_id)
          /\ main_data.resources[resource_id].data.width # 0
    /\ \E resource_id \in DOMAIN main_data.resources :
          /\ ~ReferencedByMap(main_data, parsed_blocks, resource_id)
          /\ main_data.resources[resource_id].data.resourceId = "cover.jpg"
          /\ main_data.resources[resource_id].data.width = 0

-----------------------------------------------------------------------------
(* C27 *)

\* the element before element n was a caption-styled paragraph and its text
\* is the caption of the image or table block the scan last emitted
CaptionConsumedBefore(n) ==
    /\ n > 1
    /\ body[n - 1].tag = "p"
    /\ body[n - 1].caption_style
    /\ previous_block # 0
    /\ previous_element_type \in {"image", "table"}
    /\ "caption" \in DOMAIN body_blocks[previous_block]
    /\ body_blocks[previous_block].caption = ElementText(n - 1)

\* C27: at most one caption-styled paragraph is consumed per image or table
\* block: once one is attached as the caption of the preceding image or
\* table, a further caption-styled paragraph directly after it does not
\* overwrite that caption and is emitted as a block of its own.
C27_OneCaptionPerBlock ==
    [][(dpc = "scan" /\ element_count < Len(body)) =>
          LET n == element_count + 1
          IN (/\ body[n].tag = "p"
              /\ body[n].caption_style
              /\ ~body[n].raises
              /\ CaptionConsumedBefore(n)) =>
                /\ body_blocks'[previous_block] = body_blocks[previous_block]
                /\ Len(body_blocks') > Len(body_blocks)
                /\ body_blocks'[Len(body_blocks')].type = "text"
                /\ body_blocks'[Len(body_blocks')].text = ElementText(n)
                /\ block_origin'[Len(body_blocks')] = n]_vars

-----------------------------------------------------------------------------
(* C24 and C25 *)

\* C24: every list Text block emitted by process_docx_lists has the subtype
\* bullet-list or numbered-list, never an undefined one, also for a list
\* that holds no level-0 item.
C24_ListBlockHasListSubtype ==
    lpc = "done" =>
        \A b \in DOMAIN list_blocks :
            list_blocks[b].text_type \in {"bullet-list", "numbered-list"}

\* the texts of the items, one after the other
RECURSIVE ItemTexts(_)
ItemTexts(items) ==
    IF items = <<>> THEN <<>> ELSE Head(items).text \o ItemTexts(Tail(items))

\* the items of the groups, group after group
RECURSIVE GroupedItems(_)
GroupedItems(groups) ==
    IF groups = <<>> THEN <<>> ELSE Head(groups).items \o GroupedItems(Tail(groups))

\* the item texts of a rendered list, in the order of the markup
RenderedTexts(html) ==
    SelectSeq(html, LAMBDA t : t \notin {"<li>", "</li>", "<", "</", ">", "ul", "ol"})

\* the number of list entries of a rendered list
ListEntries(html) == Len(SelectSeq(html, LAMBDA t : t = "<li>"))

\* the deepest nesting of list entries in the markup read up to its end
RECURSIVE EntryDepth(_, _, _)
EntryDepth(html, open, deepest) ==
    IF html = <<>> THEN deepest
    ELSE IF Head(html) = "<li>"
         THEN EntryDepth(Tail(html), open + 1, IF open + 1 > deepest THEN open + 1 ELSE deepest)
         ELSE IF Head(html) = "</li>"
         THEN EntryDepth(Tail(html), open - 1, deepest)
         ELSE EntryDepth(Tail(html), open, deepest)

\* C25: no list item is lost: group_list_items puts every item in exactly
\* one group, in source order, and generate_list_html emits exactly one list
\* entry per item of the flattened group, in the group's order, nested at
\* most one level below the root entries; also for a group that starts with
\* an item deeper than its minimum level.
C25_NoListItemLost ==
    /\ lpc # "collected" =>
          ItemTexts(GroupedItems(grouped_lists)) = ItemTexts(Scanned)
    /\ lpc = "done" =>
          \A g \in DOMAIN flattened_lists :
              LET group == flattened_lists[g]
                  html == list_blocks[BlockOfGroup(group)].text
              IN /\ ListEntries(html) = Len(group.items)
                 /\ RenderedTexts(html) = ItemTexts(group.items)
                 /\ EntryDepth(html, 0, 0) <= 2

-----------------------------------------------------------------------------
(* process_docx_image and determine_image_display *)

MaxDrawings == 2

\* image_rels: relationship id -> target, in the order of document.xml.rels
ImageRels ==
    << [id |-> "rId1", dir |-> "media", name |-> "a.png"],
       [id |-> "rId2", dir |-> "media", name |-> "s.png"],
       [id |-> "rId3", dir |-> "media", name |-> "b.png"],
       [id |-> "rId4", dir |-> "http:", name |-> "e.png"] >>

RelIds == {ImageRels[k].id : k \in DOMAIN ImageRels}

\* image_rels[rel_id]
RelTarget(rel_id) == ImageRels[CHOOSE k \in DOMAIN ImageRels : ImageRels[k].id = rel_id]

\* media_files.get(image_path) names a file that exists
MediaFileExists(target) == target.dir = "media"

\* img.size as PIL reads the copied file, <<>> when it cannot be opened
PixelSize(name) ==
    CASE name = "a.png" -> <<800, 600>>
      [] name = "s.png" -> <<400, 300>>
      [] name = "b.png" -> <<1600, 900>>
      [] OTHER -> <<>>

\* A drawing as process_docx_image sees it: the blip's embed or link id, the
\* docPr description, the caption found in a text box, a relationship id among
\* the attributes of its AlternateContent, one quoted in its XML text, and
\* its wrapping and horizontal position.
Drawing(embed, descr, textbox, alt_id, xml_id, wrapped, align, relative_from) ==
    [embed |-> embed, descr |-> descr, textbox |-> textbox, alt_id |-> alt_id,
     xml_id |-> xml_id, wrapped |-> wrapped, align |-> align,
     relative_from |-> relative_from]

Wrappings ==
    { [wrapped |-> FALSE, align |-> "None", relative_from |-> "None"],
      [wrapped |-> FALSE, align |-> "left", relative_from |-> "None"],
      [wrapped |-> TRUE, align |-> "None", relative_from |-> "None"],
      [wrapped |-> TRUE, align |-> "left", relative_from |-> "column"],
      [wrapped |-> TRUE, align |-> "right", relative_from |-> "leftMargin"],
      [wrapped |-> TRUE, align |-> "None", relative_from |-> "rightMargin"] }

DrawingSamples ==
    { Drawing(e, <<"alt">>, t, "None", "None", w.wrapped, w.align, w.relative_from) :
          e \in {"None", "rId2", "rId3", "rId9"}, t \in {<<>>, <<"Figure 1">>}, w \in Wrappings }
    \cup { Drawing("None", <<"AI-generated">>, <<"Figure 1">>, "rId3", "rId3", FALSE, "None", "None"),
           Drawing("None", <<>>, <<"Figure 1">>, "None", "rId2", FALSE, "None", "None"),
           Drawing("rId1", <<"AI-generated">>, <<>>, "None", "rId1", FALSE, "None", "None") }

\* 'generated' in caption.lower() and ('ai' in ... or 'intelligence' in ...)
IsAiGenerated(caption) == caption = <<"AI-generated">>

\* caption = doc_pr.get('descr'), None when it reads as generated alt text
DescriptionCaption(drawing) ==
    IF IsAiGenerated(drawing.descr) THEN <<>> ELSE drawing.descr

\* the search in the AlternateContent attributes, then in the XML text
SearchedRelId(drawing) ==
    IF drawing.alt_id \in RelIds THEN drawing.alt_id
    ELSE IF drawing.xml_id \in RelIds THEN drawing.xml_id
    ELSE "None"

\* used_ids: `for block in blocks if 'blocks' in locals() else []` finds no
\* local named blocks in process_docx_image, so the loop runs over []
UsedIds(blocks) == {}

\* `for potential_id in image_rels: if potential_id not in used_ids`
FirstUnused(used_ids) ==
    LET free == SelectSeq(ImageRels, LAMBDA rel : rel.id \notin used_ids)
    IN IF free = <<>> THEN "None" ELSE free[1].id

\* rel_id as it stands at `if not rel_id or rel_id not in image_rels`
ResolvedRelId(drawing, blocks) ==
    LET direct == drawing.embed
        searched == IF drawing.textbox # <<>> /\ direct = "None"
                    THEN SearchedRelId(drawing) ELSE direct
    IN IF searched = "None" /\ drawing.textbox # <<>>
       THEN FirstUnused(UsedIds(blocks))
       ELSE searched

\* float_alignment as the wrapping branch leaves it
WrapAlignment(drawing) ==
    LET aligned == IF drawing.align = "left" THEN "start" ELSE "end"
    IN IF drawing.relative_from \in {"right", "rightMargin"} THEN "end"
       ELSE IF drawing.relative_from \in {"left", "leftMargin"} THEN "start"
       ELSE aligned

\* (display_type, float_alignment); ("standard", None) when the file cannot
\* be opened
determine_image_display(name, drawing) ==
    LET float_alignment == IF drawing.wrapped THEN WrapAlignment(drawing) ELSE "None"
        size == PixelSize(name)
        width == size[1]
        height == size[2]
    IN IF size = <<>> THEN <<"standard", "None">>
       ELSE IF width > 1200 /\ height > 0 /\ 9 * width >= 16 * height
       THEN <<"wide", float_alignment>>
       ELSE IF width < 800 \/ drawing.wrapped
       THEN <<"float", float_alignment>>
       ELSE <<"standard", float_alignment>>

\* the image block of a drawing, the empty dict for None
process_docx_image(drawing, blocks) ==
    LET rel_id == ResolvedRelId(drawing, blocks)
        target == RelTarget(rel_id)
        shown == determine_image_display(target.name, drawing)
        caption == IF drawing.textbox # <<>> THEN drawing.textbox
                   ELSE DescriptionCaption(drawing)
        block == create_image_block(target.name, caption, shown[1], shown[2])
        sized == IF PixelSize(target.name) # <<>>
                 THEN Put(block, "dimensions", PixelSize(target.name))
                 ELSE block
    IN IF rel_id \notin RelIds THEN EmptyDict
       ELSE IF target.dir # "media" THEN EmptyDict
       ELSE IF ~MediaFileExists(target) THEN EmptyDict
       ELSE Put(sized, "original_path", target.name)

InitImage ==
    /\ PublishIdle
    /\ ListIdle
    /\ all_list_items = <<>>
    /\ DocxIdle
    /\ ClassifyIdle
    /\ drawings \in SeqsUpTo(DrawingSamples, MaxDrawings)
    /\ drawing_count = 0
    /\ image_blocks = <<>>
    /\ image_origin = <<>>

\* image_block = process_docx_image(drawing, ...); if image_block:
\* blocks.append(image_block)
ProcessDrawing ==
    /\ drawing_count < Len(drawings)
    /\ LET n == drawing_count + 1
           image_block == process_docx_image(drawings[n], image_blocks)
       IN /\ drawing_count' = n
          /\ IF image_block # EmptyDict
             THEN /\ image_blocks' = Append(image_blocks, image_block)
                  /\ image_origin' = Append(image_origin, n)
             ELSE UNCHANGED <<image_blocks, image_origin>>
    /\ UNCHANGED <<drawings, listVars, all_list_items, docxVars, classifyVars>>
    /\ UNCHANGED publishVars

NextImage == ProcessDrawing

SpecImage == InitImage /\ [][NextImage]_vars

-----------------------------------------------------------------------------
(* C21 and C22 *)

\* the image node of Phase 1 for the block and that node after the image
\* branch of update_storymap_content
CreatedImageNode(block) == ImageNode(block, 1)
PatchedImageNode(block) == ImageNodeOf(CreatedImageNode(block), block)

\* C21: every float image block carries a resolved float alignment, start or
\* end, end when the drawing gives no position; after Phase 2 its node has
\* config size = float and floatAlignment = that alignment; the node of an
\* image that is not float gets no size or floatAlignment from Phase 2.
C21_FloatAlignmentResolved ==
    \A k \in DOMAIN image_blocks :
        LET block == image_blocks[k]
            drawing == drawings[image_origin[k]]
            patched == PatchedImageNode(block)
        IN IF block.display = "float"
           THEN /\ block.float_alignment \in {"start", "end"}
                /\ (drawing.align = "None" /\ drawing.relative_from = "None")
                      => block.float_alignment = "end"
                /\ patched.config.size = "float"
                /\ "floatAlignment" \in DOMAIN patched.config
                /\ patched.config.floatAlignment = block.float_alignment
           ELSE patched.config = CreatedImageNode(block).config

\* the drawing reaches the last resort of process_docx_image: a text box
\* caption and no relationship id from the blip or from either search
IsFallback(drawing) ==
    /\ drawing.textbox # <<>>
    /\ drawing.embed = "None"
    /\ SearchedRelId(drawing) = "None"

\* the relationships whose image no emitted image block holds, in order
Unconsumed(blocks) ==
    SelectSeq(ImageRels,
              LAMBDA rel : \A k \in DOMAIN blocks : blocks[k].original_path # rel.name)

\* C22: when process_docx_image falls back to an unused relationship, the id
\* it assigns is the first image relationship id that no already emitted
\* image block consumed, so two fallback images never share an id while an
\* unconsumed one remains.
C22_FallbackTakesUnconsumedId ==
    [][(drawing_count < Len(drawings)) =>
          LET drawing == drawings[drawing_count + 1]
              free == Unconsumed(image_blocks)
              last == Len(image_blocks) + 1
          IN (IsFallback(drawing) /\ free # <<>> /\ free[1].dir = "media") =>
                /\ Len(image_blocks') = last
                /\ image_blocks'[last].original_path = free[1].name]_vars

====
